---------------------------- MODULE Spec2Model ----------------------------
(***************************************************************************)
(* vertebrate: EventEmitter, Model and Collection (src/README.md, the      *)
(* library source from line 242 on).                                       *)
(*                                                                         *)
(* A JavaScript value that may be undefined is written as a sequence of    *)
(* length at most one: << >> is undefined, <<v>> is the value v.  An       *)
(* attribute mapping is a function from the keys it holds to integers.     *)
(* The handlers a Collection registers on a member are closures; a closure *)
(* is a record [c, k]: the collection that made it and a token that tells  *)
(* two closures of one collection apart (JavaScript object identity).      *)
(* The event names "vertebrate:..." stand for the symbols of that name.    *)
(* A plain object handed to add is a fresh object on every call: the Model *)
(* constructor keeps the object it is given, and no caller here hands the  *)
(* same object in twice.                                                   *)
(***************************************************************************)
EXTENDS Integers, Sequences, FiniteSets, TLC

\* ------------------------------------------------------------------ bounds
NModels == 2       \* Model instances that can be constructed
MaxLen == 3        \* longest member sequence
MaxItems == 2      \* longest argument list of add and remove
MaxHandlers == 2   \* most closures registered on one model

Models == 1 .. NModels
Collections == {1}
KeyOrder == <<"id", "a">>
Keys == {"id", "a"}
IdValues == {1, 2}
InvalidIds == {0 - 1}
AValues == {1, 2}
Strategies == {"ignore", "replace", "mergeNewIntoOld", "mergeOldIntoNew"}
EventNames == {"x", "change", "vertebrate:newListener"}

VARIABLES
  created,              \* the Model instances constructed so far
  modelsAttributes,     \* Model -> live attribute mapping
  previousAttributes,   \* Model -> snapshot mapping
  collection,           \* Model -> << >> or <<c>>: the back-reference
  privateCollections,   \* Collection -> sequence of members
  genericHandlers,      \* Model -> sequence of closures (insertion order)
  specificHandlers,     \* Model -> sequence of closures registered for 'change'
  memberGenericEvents,  \* Collection -> Model -> << >> or <<closure>>
  memberChangeEvents,   \* Collection -> Model -> << >> or <<closure>>
  requests,             \* the HTTP requests in flight
  promiseAll,           \* the promise of the last Collection.save
  op,                   \* the last call made, with what it returned
  emitterSpecificHandlers,  \* a plain EventEmitter's Map: name -> Set of handlers
  emitterGenericHandlers,   \* a plain EventEmitter's Set of generic handlers
  emitterOp,                \* the last call on that emitter, with what it did
  registered,               \* what the callers of that emitter registered and did not remove
  settled,              \* the responses to the saves of a Model that overlap, in order of arrival
  log                   \* the events emitted during the last call, in order

vars == <<created, modelsAttributes, previousAttributes, collection,
          privateCollections, genericHandlers, specificHandlers,
          memberGenericEvents, memberChangeEvents, requests, promiseAll, op, log,
          emitterSpecificHandlers, emitterGenericHandlers, emitterOp, registered,
          settled>>

\* ----------------------------------------------------------------- helpers
Range(s) == {s[i] : i \in 1 .. Len(s)}

IndexOf(s, x) ==
  IF x \in Range(s) THEN CHOOSE i \in 1 .. Len(s) : s[i] = x /\ \A j \in 1 .. i - 1 : s[j] # x
  ELSE 0

RemoveAt(s, i) == [j \in 1 .. Len(s) - 1 |-> IF j < i THEN s[j] ELSE s[j + 1]]

Count(s, x) == Cardinality({i \in 1 .. Len(s) : s[i] = x})

Without(s, x) == LET i == IndexOf(s, x) IN IF i = 0 THEN s ELSE RemoveAt(s, i)

\* Object.assign({}, base, over)
Assign(base, over) ==
  [k \in DOMAIN base \cup DOMAIN over |-> IF k \in DOMAIN over THEN over[k] ELSE base[k]]

\* object[key], undefined when the key is absent
Prop(object, key) == IF key \in DOMAIN object THEN <<object[key]>> ELSE << >>

EmptyObject == [k \in {} |-> 0]

\* The plain objects the callers pass.  IdObjects carry at most an id (one
\* of them an id the Model constructor rejects); MergeObjects carry an id or
\* none and a second attribute or none.
IdObjects == {EmptyObject} \cup {[id |-> v] : v \in IdValues \cup InvalidIds}

MergeObjects ==
  {Assign(i, a) : i \in {EmptyObject, [id |-> 1]},
                  a \in {EmptyObject} \cup {[a |-> v] : v \in AValues}}

\* UNION of F over a set of states: the outcomes of a step taken from any of them.
Bind(SS, F(_)) == UNION {F(S) : S \in SS}


\* ------------------------------------------------------ the state, bundled
(* The operators below take and return the program state as one record S   *)
(* (the variables, plus item/steps/threw/returned, which describe the call *)
(* in progress).  A step with several possible outcomes returns a set.     *)
Id(S, m) == Prop(S.modelsAttributes[m], "id")

isNew(S, m) == Id(S, m) = << >>

\* ------------------------------------------------------------ EventEmitter
specialEventSymbols ==
  {"vertebrate:newListener", "vertebrate:newGenericListener",
   "vertebrate:removeListener", "vertebrate:removeGenericListener"}

Logged(S, on, id, name, args, handler) ==
  [S EXCEPT !.log = Append(@, [on |-> on, id |-> id, name |-> name, args |-> args,
                               handler |-> handler,
                               models |-> IF on = "collection" THEN S.privateCollections[id]
                                          ELSE << >>,
                               item |-> S.item])]

\* collection.emit(name, ...args): the Collection's own handlers are the
\* observers; what they are handed is appended to the log.
CollectionEmit(S, c, name, args) == Logged(S, "collection", c, name, args, << >>)

\* Array.prototype.sort's reading of comparator(a, b): NaN counts as +0.
Comparator(S, a, b) ==
  LET x == Id(S, a)
      y == Id(S, b)
  IN  IF x = << >> \/ y = << >> THEN [nan |-> TRUE, v |-> 0]
      ELSE [nan |-> FALSE, v |-> x[1] - y[1]]

SortOrder(S, a, b) == LET r == Comparator(S, a, b) IN IF r.nan THEN 0 ELSE r.v

\* ECMAScript's "consistent comparator" on the elements of s.
ConsistentComparator(S, s) ==
  \A a, b, c \in Range(s) :
    /\ SortOrder(S, a, a) = 0
    /\ (SortOrder(S, a, b) = 0) => (SortOrder(S, b, a) = 0)
    /\ (SortOrder(S, a, b) < 0) => (SortOrder(S, b, a) > 0)
    /\ (SortOrder(S, a, b) = 0 /\ SortOrder(S, b, c) = 0) => (SortOrder(S, a, c) = 0)
    /\ (SortOrder(S, a, b) < 0 /\ SortOrder(S, b, c) < 0) => (SortOrder(S, a, c) < 0)
    /\ (SortOrder(S, a, b) > 0 /\ SortOrder(S, b, c) > 0) => (SortOrder(S, a, c) > 0)
    /\ (SortOrder(S, a, b) = 0 /\ SortOrder(S, b, c) < 0) => (SortOrder(S, a, c) < 0)
    /\ (SortOrder(S, a, b) < 0 /\ SortOrder(S, b, c) = 0) => (SortOrder(S, a, c) < 0)

RECURSIVE InsertSorted(_, _, _)
InsertSorted(S, s, x) ==
  IF s = << >> THEN <<x>>
  ELSE IF SortOrder(S, x, s[Len(s)]) < 0
       THEN Append(InsertSorted(S, SubSeq(s, 1, Len(s) - 1), x), s[Len(s)])
       ELSE Append(s, x)

\* The stable sort of s (equal elements keep their order).
RECURSIVE StableSort(_, _)
StableSort(S, s) ==
  IF s = << >> THEN << >>
  ELSE InsertSorted(S, StableSort(S, SubSeq(s, 1, Len(s) - 1)), s[Len(s)])

Reorderings(s) ==
  {t \in [1 .. Len(s) -> Range(s)] : \A x \in Range(s) : Count(t, x) = Count(s, x)}

\* models.sort(collection.comparator): stable under a consistent comparator,
\* an implementation-defined order of the same elements otherwise.
SortOutcomes(S, s) ==
  IF ConsistentComparator(S, s) THEN {StableSort(S, s)} ELSE Reorderings(s)

\* The record of one run of sort: the sequence and its ids before, the
\* sequence after, and the events the Collection had emitted before and after.
Sorting(S, U, c) ==
  [U EXCEPT !.sorts = Append(@, [c |-> c, before |-> S.privateCollections[c],
                                 ids |-> [i \in 1 .. Len(S.privateCollections[c]) |->
                                            Id(S, S.privateCollections[c][i])],
                                 after |-> U.privateCollections[c],
                                 logBefore |-> Len(S.log), logAfter |-> Len(U.log)])]

\* A faulty sort, which emits 'sort' whether or not the order changed.
sort_AlwaysEmits(S, c) ==
  {Sorting(S, CollectionEmit([S EXCEPT !.privateCollections[c] = models], c, "sort", << >>), c) :
     models \in SortOutcomes(S, S.privateCollections[c])}

sort(S, c) ==
  LET modelsBefore == S.privateCollections[c]
  IN  {Sorting(S, IF models # modelsBefore
                  THEN CollectionEmit([S EXCEPT !.privateCollections[c] = models],
                                      c, "sort", << >>)
                  ELSE S, c) : models \in SortOutcomes(S, modelsBefore)}

RECURSIVE emitToGenericHandlers(_, _, _, _, _)
emitToGenericHandlers(S, m, handlers, name, args) ==
  IF name \in specialEventSymbols \/ handlers = << >> THEN S
  ELSE emitToGenericHandlers(CollectionEmit(S, Head(handlers).c, name, <<m>> \o args),
                             m, Tail(handlers), name, args)

RECURSIVE emitToSpecificHandlers(_, _, _)
emitToSpecificHandlers(SS, handlers, name) ==
  IF name # "change" \/ handlers = << >> THEN SS
  ELSE emitToSpecificHandlers(Bind(SS, LAMBDA S : sort(S, Head(handlers).c)),
                              Tail(handlers), name)

\* model.emit(name, ...args): the generic handlers first, then the handlers
\* registered for the name (the Collections' changeListeners, for 'change').
ModelEmitWith(S, m, name, args, handler) ==
  LET S1 == Logged(S, "model", m, name, args, handler)
      S2 == emitToGenericHandlers(S1, m, S.genericHandlers[m], name, args)
  IN  emitToSpecificHandlers({S2}, S.specificHandlers[m], name)

ModelEmit(S, m, name, args) == ModelEmitWith(S, m, name, args, << >>)

\* model.addGenericListener(handler)
addGenericListener(S, m, handler) ==
  IF handler \in Range(S.genericHandlers[m]) THEN {S}
  ELSE ModelEmitWith([S EXCEPT !.genericHandlers[m] = Append(@, handler)],
                     m, "vertebrate:newGenericListener", << >>, <<handler>>)

\* model.on('change', handler)
addListener(S, m, handler) ==
  ModelEmitWith([S EXCEPT !.specificHandlers[m] =
                             IF handler \in Range(@) THEN @ ELSE Append(@, handler)],
                m, "vertebrate:newListener", << >>, <<handler>>)

\* model.removeGenericListener(handler)
removeGenericListener(S, m, handler) ==
  IF handler \notin Range(S.genericHandlers[m]) THEN {S}
  ELSE ModelEmitWith([S EXCEPT !.genericHandlers[m] = Without(@, handler)],
                     m, "vertebrate:removeGenericListener", << >>, <<handler>>)

\* model.removeListener('change', handler)
removeListener(S, m, handler) ==
  IF handler \notin Range(S.specificHandlers[m]) THEN {S}
  ELSE ModelEmitWith([S EXCEPT !.specificHandlers[m] = Without(@, handler)],
                     m, "vertebrate:removeListener", << >>, <<handler>>)

\* ------------------------------------------- EventEmitter, on its own
\* A plain EventEmitter whose handlers are the caller's functions.  A Map is
\* the sequence of its entries and a Set the sequence of its elements, both in
\* insertion order; a handler called appends what it was handed to calls.
Handlers == {"f", "g"}
NotAFunction == "42"
ListenerNames == {"x", "vertebrate:removeListener"}
EmittedNames == {"x", "y"} \cup specialEventSymbols
EmitArgs == {<< >>, <<"a">>}

NoEmitterCall == [name |-> "none", event |-> << >>, handler |-> "", args |-> << >>]

MapIndex(map, name) ==
  IF \E i \in 1 .. Len(map) : map[i].name = name
  THEN CHOOSE i \in 1 .. Len(map) : map[i].name = name
  ELSE 0

\* map.get(name): << >> for undefined, <<handlers>> for the Set of the entry
MapGet(map, name) ==
  IF MapIndex(map, name) = 0 THEN << >> ELSE <<map[MapIndex(map, name)].handlers>>

\* map.set(name, handlers): a new entry goes last, an old one keeps its place
MapSet(map, name, handlers) ==
  IF MapIndex(map, name) = 0 THEN Append(map, [name |-> name, handlers |-> handlers])
  ELSE [map EXCEPT ![MapIndex(map, name)].handlers = handlers]

\* map.delete(name)
MapDelete(map, name) ==
  IF MapIndex(map, name) = 0 THEN map ELSE RemoveAt(map, MapIndex(map, name))

\* [...map.keys()]
MapKeys(map) == [i \in 1 .. Len(map) |-> map[i].name]

\* set.add(handler)
SetAdd(set, handler) == IF handler \in Range(set) THEN set ELSE Append(set, handler)

\* handler(...args), called as a generic or as a specific handler of event
Invoked(E, as, event, handler, args) ==
  [E EXCEPT !.calls = Append(@, [as |-> as, event |-> event, handler |-> handler,
                                 args |-> args])]

RECURSIVE InvokeEach(_, _, _, _, _)
InvokeEach(E, as, event, handlers, args) ==
  IF handlers = << >> THEN E
  ELSE InvokeEach(Invoked(E, as, event, Head(handlers), args), as, event,
                  Tail(handlers), args)

Throw(E) == [E EXCEPT !.threw = TRUE, !.returned = "nothing"]

\* A faulty dispatch, which hands the special events to generic handlers too.
EventEmitter_emitToGenericHandlers_Unfiltered(E, name, args) ==
  InvokeEach(E, "generic", name, E.genericHandlers, <<name>> \o args)

\* emitToGenericHandlers(eventEmitter, name, args)
EventEmitter_emitToGenericHandlers(E, name, args) ==
  IF name \notin specialEventSymbols
  THEN InvokeEach(E, "generic", name, E.genericHandlers, <<name>> \o args)
  ELSE E

\* emitToSpecificHandlers(eventEmitter, name, args)
EventEmitter_emitToSpecificHandlers(E, name, args) ==
  IF MapGet(E.specificHandlers, name) = << >> \/ MapGet(E.specificHandlers, name)[1] = << >>
  THEN [E EXCEPT !.returned = "false"]
  ELSE [InvokeEach(E, "specific", name, MapGet(E.specificHandlers, name)[1], args)
          EXCEPT !.returned = "true"]

\* A faulty emit, whose result counts the generic handlers too.
EventEmitter_emit_CountsGeneric(E, name, args) ==
  IF name = << >> THEN Throw(E)
  ELSE [EventEmitter_emitToSpecificHandlers(
          EventEmitter_emitToGenericHandlers(E, name[1], args), name[1], args)
          EXCEPT !.returned = IF @ = "true" \/ E.genericHandlers # << >>
                              THEN "true" ELSE "false"]

\* A faulty emit, which serves the handlers of the name first.
EventEmitter_emit_SpecificFirst(E, name, args) ==
  IF name = << >> THEN Throw(E)
  ELSE [EventEmitter_emitToGenericHandlers(
          EventEmitter_emitToSpecificHandlers(E, name[1], args), name[1], args)
          EXCEPT !.returned = EventEmitter_emitToSpecificHandlers(E, name[1], args).returned]

\* emitter.emit(name, ...args); name is << >> when undefined
EventEmitter_emit(E, name, args) ==
  IF name = << >> THEN Throw(E)
  ELSE EventEmitter_emitToSpecificHandlers(
         EventEmitter_emitToGenericHandlers(E, name[1], args), name[1], args)

\* A faulty addListener, which keeps a list and not a Set of handlers.
EventEmitter_addListener_KeepsList(E, name, handler) ==
  IF name = << >> \/ handler \notin Handlers THEN Throw(E)
  ELSE [EventEmitter_emit(
          [E EXCEPT !.specificHandlers =
             MapSet(@, name[1],
                    IF MapGet(@, name[1]) # << >>
                    THEN Append(MapGet(@, name[1])[1], handler)
                    ELSE <<handler>>)],
          <<"vertebrate:newListener">>, <<name[1], handler>>)
          EXCEPT !.returned = "this"]

\* emitter.addListener(name, handler)
EventEmitter_addListener(E, name, handler) ==
  IF name = << >> THEN Throw(E)
  ELSE IF handler \notin Handlers THEN Throw(E)
  ELSE [EventEmitter_emit(
          [E EXCEPT !.specificHandlers =
             MapSet(@, name[1],
                    IF MapGet(@, name[1]) # << >>
                    THEN SetAdd(MapGet(@, name[1])[1], handler)
                    ELSE <<handler>>)],
          <<"vertebrate:newListener">>, <<name[1], handler>>)
          EXCEPT !.returned = "this"]

\* emitter.on(...args)
EventEmitter_on(E, name, handler) == EventEmitter_addListener(E, name, handler)

\* emitter.addGenericListener(handler)
EventEmitter_addGenericListener(E, handler) ==
  IF handler \notin Handlers THEN Throw(E)
  ELSE IF handler \in Range(E.genericHandlers) THEN [E EXCEPT !.returned = "this"]
  ELSE [EventEmitter_emit([E EXCEPT !.genericHandlers = Append(@, handler)],
                          <<"vertebrate:newGenericListener">>, <<handler>>)
          EXCEPT !.returned = "this"]

\* emitter.removeListener(name, handler)
EventEmitter_removeListener(E, name, handler) ==
  IF /\ name # << >>
     /\ MapGet(E.specificHandlers, name[1]) # << >>
     /\ handler \in Range(MapGet(E.specificHandlers, name[1])[1])
  THEN [EventEmitter_emit(
          [E EXCEPT !.specificHandlers =
             MapSet(@, name[1], Without(MapGet(@, name[1])[1], handler))],
          <<"vertebrate:removeListener">>, <<name[1], handler>>)
          EXCEPT !.returned = "this"]
  ELSE [E EXCEPT !.returned = "this"]

\* emitter.removeGenericListener(handler)
EventEmitter_removeGenericListener(E, handler) ==
  IF handler \in Range(E.genericHandlers)
  THEN [EventEmitter_emit([E EXCEPT !.genericHandlers = Without(@, handler)],
                          <<"vertebrate:removeGenericListener">>, <<handler>>)
          EXCEPT !.returned = "this"]
  ELSE [E EXCEPT !.returned = "this"]

\* for (let handler of handlers) this.emit(removeListener, name, handler)
RECURSIVE emitRemoved(_, _, _)
emitRemoved(E, name, handlers) ==
  IF handlers = << >> THEN E
  ELSE emitRemoved(EventEmitter_emit(E, <<"vertebrate:removeListener">>,
                                     <<name, Head(handlers)>>),
                   name, Tail(handlers))

\* A faulty removeHandlers, which clears the whole Map.
removeHandlers_ClearsMap(E, name) ==
  IF MapGet(E.specificHandlers, name) = << >> THEN Throw(E)
  ELSE [emitRemoved(E, name, MapGet(E.specificHandlers, name)[1])
          EXCEPT !.specificHandlers = << >>]

\* removeHandlers(name), the closure of removeAllListeners: iterating the
\* undefined Set of a name without an entry is a TypeError
removeHandlers(E, name) ==
  IF MapGet(E.specificHandlers, name) = << >> THEN Throw(E)
  ELSE [emitRemoved(E, name, MapGet(E.specificHandlers, name)[1])
          EXCEPT !.specificHandlers = MapDelete(@, name)]

\* for (let handler of genericHandlers.get(this)) this.removeGenericListener(handler)
RECURSIVE removeGenericEach(_, _)
removeGenericEach(E, handlers) ==
  IF handlers = << >> THEN E
  ELSE removeGenericEach(EventEmitter_removeGenericListener(E, Head(handlers)),
                         Tail(handlers))

\* for (let name of allHandlersForThis.keys()) removeHandlers(name)
RECURSIVE removeHandlersEach(_, _)
removeHandlersEach(E, names) ==
  IF names = << >> THEN E
  ELSE removeHandlersEach(removeHandlers(E, Head(names)), Tail(names))

\* emitter.removeAllListeners(name); name is << >> when not given
EventEmitter_removeAllListeners(E, name) ==
  IF name # << >>
  THEN IF removeHandlers(E, name[1]).threw THEN removeHandlers(E, name[1])
       ELSE [removeHandlers(E, name[1]) EXCEPT !.returned = "this"]
  ELSE [removeHandlersEach(removeGenericEach(E, E.genericHandlers),
                           MapKeys(E.specificHandlers))
          EXCEPT !.returned = "this"]


\* -------------------------------------------------- Collection, private part
\* The closures registerEvents creates for (c, m) are alike but for their
\* identity.  The pair the bookkeeping maps of c hold for m is numbered 0.
\* When registerEvents overwrites the maps while that pair is still registered
\* on m, nothing refers to it any more and unregisterEvents cannot remove it:
\* Retire renumbers it to the next k >= 1.
Current(c) == [c |-> c, k |-> 0]

Retired(c, handlers) ==
  [c |-> c, k |-> 1 + Cardinality({i \in 1 .. Len(handlers) : handlers[i].c = c})]

Retire(c, handlers) ==
  [i \in 1 .. Len(handlers) |->
     IF handlers[i] = Current(c) THEN Retired(c, Without(handlers, Current(c)))
     ELSE handlers[i]]

registerEvents(S, c, m) ==
  LET genericListener == Current(c)
      changeListener == Current(c)
      S1 == [S EXCEPT !.genericHandlers[m] = Retire(c, @),
                      !.specificHandlers[m] = Retire(c, @),
                      !.memberGenericEvents[c][m] = <<genericListener>>,
                      !.memberChangeEvents[c][m] = <<changeListener>>]
  IN  Bind(addGenericListener(S1, m, genericListener),
           LAMBDA T : addListener(T, m, changeListener))

\* memberGenericEvents.delete(model) looks the model up among the collections
\* and deletes nothing: both bookkeeping entries stay.
unregisterEvents(S, c, m) ==
  LET genericHandler == S.memberGenericEvents[c][m]
      modelChangeHandler == S.memberChangeEvents[c][m]
      SS1 == IF genericHandler # << >> THEN removeGenericListener(S, m, genericHandler[1])
             ELSE {S}
  IN  Bind(SS1, LAMBDA T : IF modelChangeHandler # << >>
                           THEN removeListener(T, m, modelChangeHandler[1])
                           ELSE {T})

\* collection.get(element) for a Model instance
getModel(S, c, m) ==
  LET members == S.privateCollections[c]
  IN  IF m \in Range(members) THEN <<m>>
      ELSE LET hits == {i \in 1 .. Len(members) : Id(S, members[i]) = Id(S, m)}
           IN  IF hits = {} THEN << >>
               ELSE <<members[CHOOSE i \in hits : \A j \in hits : i <= j]>>

\* collection.get(element) for anything else: id is the object's id, or the
\* element itself when it is no object.
getById(S, c, id) ==
  LET members == S.privateCollections[c]
      hits == {i \in 1 .. Len(members) : Id(S, members[i]) = id}
  IN  IF hits = {} THEN << >>
      ELSE <<members[CHOOSE i \in hits : \A j \in hits : i <= j]>>

\* An element handed to get, add or remove: a Model instance of the
\* Collection's Model class, a plain object, a bare value (an id, or
\* undefined), or a Model instance of another class.
get(S, c, element) ==
  IF element.kind = "model" THEN getModel(S, c, element.m)
  ELSE IF element.kind = "object" THEN getById(S, c, Prop(element.object, "id"))
  ELSE getById(S, c, element.value)

Step(S, branch, model, old) ==
  [S EXCEPT !.steps = Append(@, [branch |-> branch, model |-> model, old |-> old,
                                 item |-> S.item])]

addNew(S, c, model) ==
  LET S1 == [S EXCEPT !.collection[model] = <<c>>,
                      !.privateCollections[c] = Append(@, model)]
  IN  {CollectionEmit(U, c, "add", <<model>>) :
         U \in Bind(registerEvents(S1, c, model), LAMBDA T : sort(T, c))}

addUnrepresented(S, c, model) ==
  LET S1 == [S EXCEPT !.collection[model] = <<c>>,
                      !.privateCollections[c] = Append(@, model)]
  IN  {CollectionEmit(U, c, "add", <<model>>) :
         U \in Bind(registerEvents(S1, c, model), LAMBDA T : sort(T, c))}

\* ------------------------------------------------------------------- Model
checkId(id) == id >= 0

\* new Model(attributes): the free instance of least index.
NewInstance(S) == CHOOSE m \in Models \ S.created : \A n \in Models \ S.created : m <= n

ConstructorThrows(attributes) ==
  Prop(attributes, "id") # << >> /\ ~checkId(attributes["id"])

Construct(S, m, attributes) ==
  [S EXCEPT !.created = @ \cup {m},
            !.modelsAttributes[m] = attributes,
            !.previousAttributes[m] = Assign(EmptyObject, attributes),
            !.collection[m] = << >>]

\* An instance nothing refers to any more (a vivified object add dropped).
Discard(S, m) ==
  [S EXCEPT !.created = @ \ {m},
            !.modelsAttributes[m] = EmptyObject,
            !.previousAttributes[m] = EmptyObject]

getAttributes(S, m) == Assign(EmptyObject, S.modelsAttributes[m])

\* The number NaN as an attribute value: Object.is(NaN, NaN), but NaN !== NaN.
NaN == 0 - 2

\* x === y for a value x and a value y that is << >> when undefined
StrictEquals(x, y) == <<x>> = y /\ x # NaN

checkToUpdate(attributeName, newValue, oldValue) ==
  IF StrictEquals(newValue, oldValue) THEN FALSE
  ELSE IF attributeName = "id" /\ ~checkId(newValue) THEN FALSE
  ELSE TRUE

RECURSIVE setEach(_, _, _, _)
setEach(SS, m, newAttributes, keys) ==
  IF keys = << >> THEN SS
  ELSE LET attributeName == Head(keys)
           one(S) ==
             IF attributeName \notin DOMAIN newAttributes THEN {S}
             ELSE LET value == Prop(S.modelsAttributes[m], attributeName)
                      newValue == newAttributes[attributeName]
                  IN  IF checkToUpdate(attributeName, newValue, value)
                      THEN ModelEmit([S EXCEPT !.modelsAttributes[m] =
                                                  Assign(@, [k \in {attributeName} |-> newValue])],
                                     m, "change:" \o attributeName, <<newValue>>)
                      ELSE {S}
       IN  setEach(Bind(SS, one), m, newAttributes, Tail(keys))

\* model.setAttributes(newAttributes): 'change' is emitted whatever was set.
setAttributes(S, m, newAttributes) ==
  Bind(setEach({S}, m, newAttributes, KeyOrder), LAMBDA T : ModelEmit(T, m, "change", << >>))

\* --------------------------------------------- Collection, duplicate handling
replaceModel(S, c, model) ==
  LET found == getById(S, c, Id(S, model))
      old == found[1]
      S1 == [S EXCEPT !.privateCollections[c] = Append(Without(@, old), model),
                      !.collection[model] = <<c>>]
      SS2 == Bind(unregisterEvents(S1, c, old), LAMBDA T : registerEvents(T, c, model))
      SS3 == {[T EXCEPT !.collection[old] = << >>] : T \in SS2}
  IN  {CollectionEmit(Step(U, "replace", model, <<old>>), c, "replace", <<old, model>>) :
         U \in Bind(SS3, LAMBDA T : sort(T, c))}

\* A faulty mergeNewIntoOld, in which the member's own values win.
mergeNewIntoOld_OldWins(S, c, model) ==
  LET old == getById(S, c, Id(S, model))[1]
  IN  {Step(U, "mergeNewIntoOld", model, <<old>>) :
         U \in setAttributes(S, old, Assign(getAttributes(S, model), getAttributes(S, old)))}

mergeNewIntoOld(S, c, model) ==
  LET old == getById(S, c, Id(S, model))[1]
  IN  {Step(U, "mergeNewIntoOld", model, <<old>>) :
         U \in setAttributes(S, old, getAttributes(S, model))}

mergeOldIntoNew(S, c, model) ==
  LET old == getById(S, c, Id(S, model))[1]
      S1 == [S EXCEPT !.collection[model] = <<c>>]
      SS2 == setAttributes(S1, model, getAttributes(S1, old))
      SS3 == {[T EXCEPT !.privateCollections[c] = Append(Without(@, old), model)] : T \in SS2}
      SS4 == Bind(SS3, LAMBDA T : unregisterEvents(T, c, old))
      SS5 == {[T EXCEPT !.collection[old] = << >>] : T \in SS4}
      SS6 == Bind(SS5, LAMBDA T : registerEvents(T, c, model))
  IN  {CollectionEmit(Step(U, "mergeOldIntoNew", model, <<old>>), c, "replace", <<old, model>>) :
         U \in Bind(SS6, LAMBDA T : sort(T, c))}

\* A faulty handleDuplicate, in which no strategy is left to ignore.
handleDuplicate_NoIgnore(S, c, model, strategy) ==
  IF strategy = "mergeNewIntoOld" THEN mergeNewIntoOld(S, c, model)
  ELSE IF strategy = "mergeOldIntoNew" THEN mergeOldIntoNew(S, c, model)
  ELSE replaceModel(S, c, model)

handleDuplicate(S, c, model, strategy) ==
  IF strategy = "replace" THEN replaceModel(S, c, model)
  ELSE IF strategy = "mergeNewIntoOld" THEN mergeNewIntoOld(S, c, model)
  ELSE IF strategy = "mergeOldIntoNew" THEN mergeOldIntoNew(S, c, model)
  ELSE {Step(S, "ignore", model, getById(S, c, Id(S, model)))}

isDuplicate(S, c, model) ==
  \E i \in 1 .. Len(S.privateCollections[c]) : Id(S, S.privateCollections[c][i]) = Id(S, model)

dispatchAdd(S, c, model, strategy) ==
  IF isNew(S, model) THEN {Step(U, "addNew", model, << >>) : U \in addNew(S, c, model)}
  ELSE IF isDuplicate(S, c, model) THEN handleDuplicate(S, c, model, strategy)
  ELSE {Step(U, "addUnrepresented", model, << >>) : U \in addUnrepresented(S, c, model)}

\* ------------------------------------------------------ Collection, public
\* What a call may change, without the record of the call itself.
Core(S) ==
  [created |-> S.created, modelsAttributes |-> S.modelsAttributes,
   previousAttributes |-> S.previousAttributes, collection |-> S.collection,
   privateCollections |-> S.privateCollections,
   genericHandlers |-> S.genericHandlers, specificHandlers |-> S.specificHandlers]

Member(S, c, m) == m \in Range(S.privateCollections[c])

\* typeof object !== 'object' || object instanceof Model && !(object instanceof this.Model)
modelsNotCorrect(objects) ==
  \E i \in 1 .. Len(objects) : objects[i].kind \in {"value", "foreign"}

\* One item of add: vivify a plain object, dispatch, and let go of a vivified
\* instance that did not join.  The constructor may throw, which ends the call.
addItem(S, c, object, strategy) ==
  IF object.kind = "model"
  THEN {[U EXCEPT !.cores = Append(@, Core(U))] : U \in dispatchAdd(S, c, object.m, strategy)}
  ELSE IF ConstructorThrows(object.object)
  THEN {[S EXCEPT !.threw = TRUE]}
  ELSE LET model == NewInstance(S)
       IN  {LET V == IF Member(U, c, model) THEN U ELSE Discard(U, model)
            IN  [V EXCEPT !.cores = Append(@, Core(V))] :
              U \in dispatchAdd(Construct(S, model, object.object), c, model, strategy)}

RECURSIVE addFrom(_, _, _, _, _)
addFrom(SS, c, objects, strategy, i) ==
  IF i > Len(objects) THEN SS
  ELSE addFrom(Bind(SS, LAMBDA S : IF S.threw THEN {S}
                                   ELSE addItem([S EXCEPT !.item = i], c, objects[i], strategy)),
               c, objects, strategy, i + 1)

\* A faulty add, which looks at each item only when its turn comes.
add_LazyCheck(S, c, objects, strategy) ==
  LET bad == {i \in 1 .. Len(objects) : objects[i].kind \in {"value", "foreign"}}
      first == CHOOSE i \in bad : \A j \in bad : i <= j
  IN  IF bad = {}
      THEN {IF U.threw THEN U ELSE CollectionEmit([U EXCEPT !.item = 0], c, "update", << >>) :
              U \in addFrom({S}, c, objects, strategy, 1)}
      ELSE {[U EXCEPT !.threw = TRUE] :
              U \in addFrom({S}, c, SubSeq(objects, 1, first - 1), strategy, 1)}

\* A faulty add, which emits 'update' before it processes the items.
add_UpdateFirst(S, c, objects, strategy) ==
  IF modelsNotCorrect(objects) THEN {[S EXCEPT !.threw = TRUE]}
  ELSE addFrom({CollectionEmit(S, c, "update", << >>)}, c, objects, strategy, 1)

\* collection.add(objects, {handleDuplicates: strategy})
add(S, c, objects, strategy) ==
  IF modelsNotCorrect(objects) THEN {[S EXCEPT !.threw = TRUE]}
  ELSE {IF U.threw THEN U ELSE CollectionEmit([U EXCEPT !.item = 0], c, "update", << >>) :
          U \in addFrom({S}, c, objects, strategy, 1)}

\* [].concat(models).map(model => this.get(model)).filter(model => model)
RECURSIVE resolve(_, _, _)
resolve(S, c, elements) ==
  IF elements = << >> THEN << >>
  ELSE get(S, c, Head(elements)) \o resolve(S, c, Tail(elements))

\* collection.splice(collection.indexOf(model), 1): indexOf is -1 for a model
\* that is no member (any more), and splice(-1, 1) takes out the last element.
spliceIndexOf(s, model) ==
  IF model \in Range(s) THEN RemoveAt(s, IndexOf(s, model))
  ELSE IF s = << >> THEN s
  ELSE RemoveAt(s, Len(s))

RECURSIVE removeFrom(_, _, _, _)
removeFrom(SS, c, toRemove, i) ==
  IF i > Len(toRemove) THEN SS
  ELSE LET model == toRemove[i]
           one(S) ==
             LET S1 == [S EXCEPT !.item = i,
                                 !.privateCollections[c] = spliceIndexOf(@, model)]
             IN  {LET V == CollectionEmit(U, c, "remove", <<model>>)
                  IN  [V EXCEPT !.cores = Append(@, Core(V))] :
                    U \in unregisterEvents(S1, c, model)}
       IN  removeFrom(Bind(SS, one), c, toRemove, i + 1)

\* collection.remove(models)
remove(S, c, elements) ==
  LET toRemove == resolve(S, c, elements)
  IN  {CollectionEmit([U EXCEPT !.item = 0, !.returned = toRemove], c, "update", << >>) :
         U \in removeFrom({S}, c, toRemove, 1)}

\* ------------------------------------------------------- Model.destroy
\* collectionRemove of destroy: this.collection.remove(this), then the
\* back-reference is cleared.
collectionRemove(S, m) ==
  IF S.collection[m] = << >> THEN {S}
  ELSE {[U EXCEPT !.collection[m] = << >>] :
          U \in remove(S, S.collection[m][1], <<[kind |-> "model", m |-> m,
                                                 object |-> EmptyObject, value |-> << >>]>>)}

\* A request in flight: what was asked (kind), by which model or Collection,
\* and what the handlers of the response close over (options is the argument
\* the method was called with).  tag is 0, or the place of the model's
\* promise among those Collection.save waits for.
Request ==
  [kind |-> "", m |-> 0, c |-> 0, wait |-> FALSE, options |-> << >>,
   attributes |-> EmptyObject, tag |-> 0, add |-> TRUE, remove |-> TRUE, merge |-> TRUE]

\* An options argument: << >> when the method is called without one, or
\* <<object>>, an object with some of the keys, each true or false.
Options(keys) == {<< >>} \cup {<<o>> : o \in UNION {[K -> BOOLEAN] : K \in SUBSET keys}}

\* What the destructuring  {key = default} = {}  binds key to.
Option(options, key, default) ==
  IF options = << >> THEN default
  ELSE IF key \in DOMAIN options[1] THEN options[1][key]
  ELSE default

\* A faulty destroy, which takes the model out of its Collection at once
\* whatever wait is.
destroy_NeverWaits(S, m, options) ==
  IF isNew(S, m)
  THEN Bind(collectionRemove([S EXCEPT !.previousAttributes[m] = EmptyObject], m),
            LAMBDA T : ModelEmit(T, m, "destroy", << >>))
  ELSE {[U EXCEPT !.requests = @ \cup {[Request EXCEPT !.kind = "delete", !.m = m,
                                                        !.wait = FALSE,
                                                        !.options = options]}] :
          U \in collectionRemove(S, m)}

\* model.destroy({wait}) up to the point where it returns its promise
destroy(S, m, options) ==
  LET wait == Option(options, "wait", FALSE)
  IN  IF isNew(S, m)
      THEN Bind(collectionRemove([S EXCEPT !.previousAttributes[m] = EmptyObject], m),
                LAMBDA T : ModelEmit(T, m, "destroy", << >>))
      ELSE {[U EXCEPT !.requests = @ \cup {[Request EXCEPT !.kind = "delete", !.m = m,
                                                            !.wait = wait,
                                                            !.options = options]}] :
              U \in IF wait THEN {S} ELSE collectionRemove(S, m)}

\* A faulty response handler, which does not look at res.ok.
destroyResponse_IgnoresStatus(S, request, ok) ==
  LET m == request.m
      S0 == [S EXCEPT !.requests = @ \ {request}]
  IN  Bind(IF request.wait
           THEN collectionRemove([S0 EXCEPT !.previousAttributes[m] = EmptyObject], m)
           ELSE {[S0 EXCEPT !.previousAttributes[m] = EmptyObject]},
           LAMBDA T : ModelEmit(T, m, "destroy", << >>))

\* the DELETE response: checkResponse throws unless res.ok
destroyResponse(S, request, ok) ==
  LET m == request.m
      S0 == [S EXCEPT !.requests = @ \ {request}]
  IN  IF ~ok THEN {[S0 EXCEPT !.threw = TRUE]}
      ELSE Bind(IF request.wait
                THEN collectionRemove([S0 EXCEPT !.previousAttributes[m] = EmptyObject], m)
                ELSE {[S0 EXCEPT !.previousAttributes[m] = EmptyObject]},
                LAMBDA T : ModelEmit(T, m, "destroy", << >>))

\* ---------------------------------------- Model: clear, hasChanged, reset
\* A faulty clear, which empties the snapshot too.
clear_EmptiesSnapshot(S, m) ==
  ModelEmit([S EXCEPT !.modelsAttributes[m] = EmptyObject,
                      !.previousAttributes[m] = EmptyObject], m, "clear", << >>)

\* model.clear()
clear(S, m) == ModelEmit([S EXCEPT !.modelsAttributes[m] = EmptyObject], m, "clear", << >>)

\* A faulty hasChanged, which looks at the keys of the live attributes only.
hasChanged_LiveKeys(S, m, attributeName) ==
  LET current == S.modelsAttributes[m]
      previous == S.previousAttributes[m]
  IN  \E key \in (IF attributeName # << >> THEN {attributeName[1]} ELSE Keys) \cap DOMAIN current :
        Prop(current, key) # Prop(previous, key)

\* model.hasChanged(attributeName); attributeName is << >> when not given.
\* Object.is on current[key] and previous[key], undefined for an absent key.
hasChanged(S, m, attributeName) ==
  LET current == S.modelsAttributes[m]
      previous == S.previousAttributes[m]
  IN  IF attributeName # << >>
      THEN Prop(current, attributeName[1]) # Prop(previous, attributeName[1])
      ELSE LET allKeys == DOMAIN current \cup DOMAIN previous
           IN  \E key \in allKeys : Prop(current, key) # Prop(previous, key)

\* model.changedAttributes(): the keys of either object whose values
\* differ, each with its live value (undefined, << >>, for a key the live
\* attributes do not hold).
changedAttributes(S, m) ==
  LET attributes == S.modelsAttributes[m]
      previous == S.previousAttributes[m]
  IN  [key \in {k \in DOMAIN attributes \cup DOMAIN previous :
                  Prop(attributes, k) # Prop(previous, k)} |-> Prop(attributes, key)]

\* model.previous(): a copy of the snapshot
previous(S, m) == Assign(EmptyObject, S.previousAttributes[m])

\* model.reset(attributes, {keepExistingAsChanges})
reset(S, m, attributes, keepExistingAsChanges) ==
  LET S1 == [S EXCEPT !.previousAttributes[m] = Assign(EmptyObject, attributes)]
      S2 == IF keepExistingAsChanges
            THEN [S1 EXCEPT !.modelsAttributes[m] = Assign(attributes, S1.modelsAttributes[m])]
            ELSE [S1 EXCEPT !.modelsAttributes[m] = Assign(EmptyObject, attributes)]
  IN  ModelEmit(S2, m, "reset", << >>)

\* ------------------------------------------------------ Model: fetch, save
\* The url methods (urlRoot of the Model, url of the Collection) are taken to
\* be defined by the subclasses in use, so url() throws for a new model only.
\* model.fetch(options) up to the point where it returns its promise
\* (options = {keepExistingAsChanges: true}: the default stands in only when
\* no argument is given.)
Model_fetch(S, m, options) ==
  IF isNew(S, m) THEN {[S EXCEPT !.threw = TRUE]}
  ELSE {[S EXCEPT !.requests = @ \cup
           {[Request EXCEPT !.kind = "get", !.m = m,
                            !.options = IF options = << >>
                                        THEN <<[keepExistingAsChanges |-> TRUE]>>
                                        ELSE options]}]}

\* A faulty response handler, which takes whatever id the server sends.
Model_fetchResponse_NoIdCheck(S, request, ok, data) ==
  LET m == request.m
      S0 == [S EXCEPT !.requests = @ \ {request}]
  IN  IF ~ok \/ data = << >> THEN {[S0 EXCEPT !.threw = TRUE]}
      ELSE Bind(reset(S0, m, data[1], Option(request.options, "keepExistingAsChanges", FALSE)),
                LAMBDA T : ModelEmit(T, m, "sync", << >>))

\* The GET response; data is what parse returns, << >> or <<object>>.
\* this.reset(data, options) destructures {keepExistingAsChanges = false}.
Model_fetchResponse(S, request, ok, data) ==
  LET m == request.m
      S0 == [S EXCEPT !.requests = @ \ {request}]
  IN  IF ~ok THEN {[S0 EXCEPT !.threw = TRUE]}
      ELSE IF data = << >> \/ Prop(data[1], "id") # Id(S0, m) THEN {[S0 EXCEPT !.threw = TRUE]}
      ELSE Bind(reset(S0, m, data[1], Option(request.options, "keepExistingAsChanges", FALSE)),
                LAMBDA T : ModelEmit(T, m, "sync", << >>))

\* A faulty save, which sends the attributes whether or not they changed.
Model_save_AlwaysSends(S, m, options, tag) ==
  [S EXCEPT !.requests = @ \cup {[Request EXCEPT !.kind = "save", !.m = m,
                                                  !.attributes =
                                                    Assign(EmptyObject, S.modelsAttributes[m]),
                                                  !.options = options,
                                                  !.tag = tag]},
            !.returned = <<"pending">>]

\* model.save({force}) up to the point where it returns its promise; returned
\* tells whether that promise is resolved already.
Model_save(S, m, options, tag) ==
  IF ~Option(options, "force", FALSE) /\ ~hasChanged(S, m, << >>)
  THEN [S EXCEPT !.returned = <<"resolved">>]
  ELSE LET attributes == Assign(EmptyObject, S.modelsAttributes[m])
       IN  [S EXCEPT !.requests = @ \cup {[Request EXCEPT !.kind = "save", !.m = m,
                                                          !.attributes = attributes,
                                                          !.options = options,
                                                          !.tag = tag]},
                     !.returned = <<"pending">>]

\* Promise.all: rejected with the first of its promises that is rejected,
\* resolved when all are resolved.
NoPromise == [status |-> "none", members |-> << >>]

PromiseAll(statuses) ==
  [status |-> IF \E i \in 1 .. Len(statuses) : statuses[i] = "rejected" THEN "rejected"
              ELSE IF \A i \in 1 .. Len(statuses) : statuses[i] = "resolved" THEN "resolved"
              ELSE "pending",
   members |-> statuses]

Settle(promise, tag, status) ==
  IF tag = 0 \/ tag > Len(promise.members) THEN promise
  ELSE LET statuses == [promise.members EXCEPT ![tag] = status]
       IN  [status |-> IF promise.status = "pending" THEN PromiseAll(statuses).status
                       ELSE promise.status,
            members |-> statuses]

\* A faulty response handler, which snapshots the attributes as they are
\* when the response arrives.
Model_saveResponse_SnapshotsLate(S, request, ok) ==
  LET m == request.m
      S0 == [S EXCEPT !.requests = @ \ {request}]
  IN  IF ~ok
      THEN {[S0 EXCEPT !.threw = TRUE,
                       !.promiseAll = Settle(@, request.tag, "rejected")]}
      ELSE {[T EXCEPT !.promiseAll = Settle(@, request.tag, "resolved")] :
              T \in ModelEmit([S0 EXCEPT !.previousAttributes[m] = S0.modelsAttributes[m]],
                              m, "sync", << >>)}

\* The response to the POST or PUT of save
Model_saveResponse(S, request, ok) ==
  LET m == request.m
      S0 == [S EXCEPT !.requests = @ \ {request}]
  IN  IF ~ok
      THEN {[S0 EXCEPT !.threw = TRUE,
                       !.promiseAll = Settle(@, request.tag, "rejected")]}
      ELSE {[T EXCEPT !.promiseAll = Settle(@, request.tag, "resolved")] :
              T \in ModelEmit([S0 EXCEPT !.previousAttributes[m] = request.attributes],
                              m, "sync", << >>)}

\* --------------------------------------------- Collection: fetch and save
\* collection.save(options): Promise.all over the members' save, in order
RECURSIVE saveEach(_, _, _, _, _)
saveEach(S, models, options, i, statuses) ==
  IF i > Len(models) THEN [S EXCEPT !.promiseAll = PromiseAll(statuses), !.returned = << >>]
  ELSE LET T == Model_save(S, models[i], options, i)
       IN  saveEach(T, models, options, i + 1, Append(statuses, T.returned[1]))

Collection_save(S, c, options) == saveEach(S, S.privateCollections[c], options, 1, << >>)

\* collection.fetch({add, remove, merge}) up to the point where it returns
Collection_fetch(S, c, add_, remove_, merge) ==
  [S EXCEPT !.requests = @ \cup {[Request EXCEPT !.kind = "fetch", !.c = c, !.add = add_,
                                                   !.remove = remove_, !.merge = merge]}]

\* for (let datum of updatedModelAttributes) this.get(datum.id).reset(datum, ...)
RECURSIVE resetEach(_, _, _, _)
resetEach(SS, c, updatedModelAttributes, merge) ==
  IF updatedModelAttributes = << >> THEN SS
  ELSE LET datum == Head(updatedModelAttributes)
           one(S) ==
             LET found == getById(S, c, Prop(datum, "id"))
             IN  IF S.threw THEN {S}
                 ELSE IF found = << >> THEN {[S EXCEPT !.threw = TRUE]}
                 ELSE reset(S, found[1], datum, merge)
       IN  resetEach(Bind(SS, one), c, Tail(updatedModelAttributes), merge)

\* A faulty then-handler, which emits 'sync' before it resets the members.
fetchThen_SyncEarly(S, c, request, data) ==
  LET currentModels == S.privateCollections[c]
      currentIds == {Id(S, currentModels[i]) : i \in {j \in 1 .. Len(currentModels) :
                                                       ~isNew(S, currentModels[j])}}
      updatedModelAttributes == SelectSeq(data, LAMBDA datum : Prop(datum, "id") \in currentIds)
  IN  resetEach({CollectionEmit([S EXCEPT !.item = 0], c, "sync", << >>)}, c,
                updatedModelAttributes, request.merge)

\* Models or plain objects as the elements remove and add are handed.
asElements(objects, model) ==
  [i \in 1 .. Len(objects) |->
     [kind |-> IF model THEN "model" ELSE "object",
      m |-> IF model THEN objects[i] ELSE 0,
      object |-> IF model THEN EmptyObject ELSE objects[i],
      value |-> << >>]]

\* if (remove) { ... this.remove(removedModels); }
fetchRemove(S, c, request, removedModels) ==
  IF request.remove
  THEN {[U EXCEPT !.returned = << >>, !.cores = << >>, !.steps = << >>] :
          U \in remove(S, c, removedModels)}
  ELSE {S}

\* if (add) { ... this.add(newModelAttributes); }
fetchAdd(S, c, request, newModelAttributes) ==
  IF S.threw THEN {S}
  ELSE IF request.add
  THEN {[U EXCEPT !.cores = << >>, !.steps = << >>] :
          U \in add(S, c, newModelAttributes, "ignore")}
  ELSE {S}

\* the loop of resets, then this.emit('sync')
fetchReset(S, c, request, updatedModelAttributes) ==
  {IF U.threw THEN U ELSE CollectionEmit([U EXCEPT !.item = 0], c, "sync", << >>) :
     U \in resetEach({S}, c, updatedModelAttributes, request.merge)}

\* The last then-handler of collection.fetch, with the parsed data
fetchThen(S, c, request, data) ==
  LET currentModels == S.privateCollections[c]
      currentIds == {Id(S, currentModels[i]) : i \in {j \in 1 .. Len(currentModels) :
                                                       ~isNew(S, currentModels[j])}}
      updatedModelAttributes == SelectSeq(data, LAMBDA datum : Prop(datum, "id") \in currentIds)
      newIds == {Prop(data[i], "id") : i \in 1 .. Len(data)}
      removedModels == SelectSeq(currentModels, LAMBDA model : Id(S, model) \notin newIds)
      newModelAttributes == SelectSeq(data, LAMBDA datum : Prop(datum, "id") \notin currentIds)
  IN  UNION {UNION {fetchReset(U, c, request, updated) : U \in fetchAdd(T, c, request, objects)} :
               T \in UNION {fetchRemove(S, c, request, models) :
                              models \in {asElements(removedModels, TRUE)}},
               objects \in {asElements(newModelAttributes, FALSE)},
               updated \in {updatedModelAttributes}}

\* The response to the GET of collection.fetch: checkResponse, parse (data
\* is << >> when the body is no array), then the handler above.
Collection_fetchResponse(S, request, ok, data) ==
  IF ~ok \/ data = << >> THEN {[S EXCEPT !.requests = @ \ {request}, !.threw = TRUE]}
  ELSE UNION {fetchThen(S0, request.c, request, data[1]) :
                S0 \in {[S EXCEPT !.requests = @ \ {request}]}}

\* ------------------------------------------------------------ the machine
Cur ==
  [created |-> created, modelsAttributes |-> modelsAttributes,
   previousAttributes |-> previousAttributes, collection |-> collection,
   privateCollections |-> privateCollections, genericHandlers |-> genericHandlers,
   specificHandlers |-> specificHandlers, memberGenericEvents |-> memberGenericEvents,
   memberChangeEvents |-> memberChangeEvents, requests |-> requests,
   promiseAll |-> promiseAll,
   log |-> << >>, item |-> 0, steps |-> << >>, cores |-> << >>, sorts |-> << >>,
   threw |-> FALSE,
   returned |-> << >>]

NoCall ==
  [name |-> "none", c |-> 0, objects |-> << >>, strategy |-> "", m |-> 0,
   attributes |-> EmptyObject, event |-> "", wait |-> FALSE, ok |-> TRUE,
   request |-> Request, data |-> << >>, options |-> << >>, keep |-> FALSE]

\* The state after a call with outcome U; call says which call it was.
Record(U, call) ==
  /\ created' = U.created
  /\ modelsAttributes' = U.modelsAttributes
  /\ previousAttributes' = U.previousAttributes
  /\ collection' = U.collection
  /\ privateCollections' = U.privateCollections
  /\ genericHandlers' = U.genericHandlers
  /\ specificHandlers' = U.specificHandlers
  /\ memberGenericEvents' = U.memberGenericEvents
  /\ memberChangeEvents' = U.memberChangeEvents
  /\ requests' = U.requests
  /\ promiseAll' = U.promiseAll
  /\ log' = U.log
  /\ op' = [call |-> call, pre |-> Core(Cur), steps |-> U.steps, cores |-> U.cores,
            sorts |-> U.sorts,
            threw |-> U.threw, returned |-> U.returned]
  /\ UNCHANGED <<emitterSpecificHandlers, emitterGenericHandlers, emitterOp,
                 registered>>

Commit(U, call) == Record(U, call) /\ UNCHANGED settled

ModelElement(m) == [kind |-> "model", m |-> m, object |-> EmptyObject, value |-> << >>]
ObjectElement(o) == [kind |-> "object", m |-> 0, object |-> o, value |-> << >>]
ValueElement(v) == [kind |-> "value", m |-> 0, object |-> EmptyObject, value |-> v]
\* a Model instance that is no instance of the Collection's Model class
ForeignElement == [kind |-> "foreign", m |-> 0, object |-> EmptyObject, value |-> << >>]

Lists(E) == UNION {[1 .. n -> E] : n \in 1 .. MaxItems}

\* What a caller can hand to add: instances it holds, plain objects, a
\* value that is no object, a Model instance of another class.
AddElements ==
  {ModelElement(m) : m \in created} \cup {ObjectElement(o) : o \in IdObjects}
    \cup {ValueElement(<<1>>)}

MergeElements ==
  {ModelElement(m) : m \in created} \cup {ObjectElement(o) : o \in MergeObjects}
    \cup {ForeignElement}

\* What a caller can hand to remove: instances, objects with or without an
\* id, ids, undefined.
RemoveElements ==
  {ModelElement(m) : m \in created}
    \cup {ObjectElement(o) : o \in {EmptyObject} \cup {[id |-> v] : v \in IdValues}}
    \cup {ValueElement(v) : v \in {<< >>} \cup {<<i>> : i \in IdValues}}

Occurrences(objects, m) ==
  Cardinality({i \in 1 .. Len(objects) : objects[i].kind = "model" /\ objects[i].m = m})

Init ==
  /\ created = {}
  /\ modelsAttributes = [m \in Models |-> EmptyObject]
  /\ previousAttributes = [m \in Models |-> EmptyObject]
  /\ collection = [m \in Models |-> << >>]
  /\ privateCollections = [c \in Collections |-> << >>]
  /\ genericHandlers = [m \in Models |-> << >>]
  /\ specificHandlers = [m \in Models |-> << >>]
  /\ memberGenericEvents = [c \in Collections |-> [m \in Models |-> << >>]]
  /\ memberChangeEvents = [c \in Collections |-> [m \in Models |-> << >>]]
  /\ requests = {}
  /\ promiseAll = NoPromise
  /\ op = [call |-> NoCall, pre |-> Core(Cur), steps |-> << >>, cores |-> << >>,
           sorts |-> << >>,
           threw |-> FALSE, returned |-> << >>]
  /\ log = << >>
  /\ emitterSpecificHandlers = << >>
  /\ emitterGenericHandlers = << >>
  /\ emitterOp = [call |-> NoEmitterCall,
                  pre |-> [specificHandlers |-> << >>, genericHandlers |-> << >>,
                           registered |-> [specific |-> {}, generic |-> {}, again |-> {},
                                          order |-> [name \in ListenerNames |-> << >>]]],
                  calls |-> << >>, threw |-> FALSE, returned |-> "nothing"]
  /\ registered = [specific |-> {}, generic |-> {}, again |-> {},
                   order |-> [name \in ListenerNames |-> << >>]]
  /\ settled = << >>

\* The observers' records of the last call are cleared (the stubs are reset)
\* before the next call is made.
Idle == op.call.name = "none"

ResetObservers ==
  /\ ~Idle
  /\ op' = [call |-> NoCall, pre |-> Core(Cur), steps |-> << >>, cores |-> << >>,
            sorts |-> << >>,
            threw |-> FALSE, returned |-> << >>]
  /\ log' = << >>
  /\ UNCHANGED <<created, modelsAttributes, previousAttributes, collection,
                 privateCollections, genericHandlers, specificHandlers,
                 memberGenericEvents, memberChangeEvents, requests, promiseAll,
                 emitterSpecificHandlers, emitterGenericHandlers, emitterOp, registered,
                 settled>>

Add(c, objects, strategy) ==
  /\ Idle
  /\ Len(privateCollections[c]) + Len(objects) <= MaxLen
  /\ Cardinality({i \in 1 .. Len(objects) : objects[i].kind = "object"})
       <= Cardinality(Models \ created)
  /\ \A m \in created : Len(genericHandlers[m]) + Occurrences(objects, m) <= MaxHandlers
  /\ \E U \in add(Cur, c, objects, strategy) :
       Commit(U, [NoCall EXCEPT !.name = "add", !.c = c, !.objects = objects,
                                !.strategy = strategy])

Remove(c, elements) ==
  /\ Idle
  /\ \E U \in remove(Cur, c, elements) :
    Commit(U, [NoCall EXCEPT !.name = "remove", !.c = c, !.objects = elements])

SetAttributes(m, newAttributes) ==
  /\ Idle
  /\ \E U \in setAttributes(Cur, m, newAttributes) :
       Commit([U EXCEPT !.returned = <<m>>],
              [NoCall EXCEPT !.name = "setAttributes", !.m = m, !.attributes = newAttributes])

Emit(m, name) ==
  /\ Idle
  /\ \E U \in ModelEmit(Cur, m, name, << >>) :
    Commit(U, [NoCall EXCEPT !.name = "emit", !.m = m, !.event = name])

Destroy(m, options) ==
  /\ Idle
  /\ \A r \in requests : r.m # m
  /\ \E U \in destroy(Cur, m, options) :
       Commit(U, [NoCall EXCEPT !.name = "destroy", !.m = m, !.options = options,
                                !.wait = Option(options, "wait", FALSE)])

DestroyResponse(request, ok) ==
  /\ Idle
  /\ request.kind = "delete"
  /\ \E U \in destroyResponse(Cur, request, ok) :
       Commit(U, [NoCall EXCEPT !.name = "destroyResponse", !.m = request.m,
                                !.wait = request.wait, !.ok = ok, !.request = request])

\* new Model(attributes)
NewModel(attributes) ==
  /\ Idle
  /\ created # Models
  /\ LET m == NewInstance(Cur)
     IN  Commit(IF ConstructorThrows(attributes) THEN [Cur EXCEPT !.threw = TRUE]
                ELSE Construct(Cur, m, attributes),
                [NoCall EXCEPT !.name = "new", !.m = m, !.attributes = attributes])

Clear(m) ==
  /\ Idle
  /\ \E U \in clear(Cur, m) : Commit(U, [NoCall EXCEPT !.name = "clear", !.m = m])

Reset(m, attributes, keepExistingAsChanges) ==
  /\ Idle
  /\ \E U \in reset(Cur, m, attributes, keepExistingAsChanges) :
       Commit(U, [NoCall EXCEPT !.name = "reset", !.m = m, !.attributes = attributes,
                                !.keep = keepExistingAsChanges])

\* At most one request of a model is in flight.
Save(m, options) ==
  /\ Idle
  /\ \A r \in requests : r.m # m
  /\ Commit(Model_save(Cur, m, options, 0),
            [NoCall EXCEPT !.name = "save", !.m = m, !.options = options])

SaveResponse(request, ok) ==
  /\ Idle
  /\ request.kind = "save"
  /\ \E U \in Model_saveResponse(Cur, request, ok) :
       Commit(U, [NoCall EXCEPT !.name = "saveResponse", !.m = request.m, !.ok = ok,
                                !.request = request])

Fetch(m, options) ==
  /\ Idle
  /\ \A r \in requests : r.m # m
  /\ \E U \in Model_fetch(Cur, m, options) :
       Commit(U, [NoCall EXCEPT !.name = "fetch", !.m = m, !.options = options])

FetchResponse(request, ok, data) ==
  /\ Idle
  /\ request.kind = "get"
  /\ \E U \in Model_fetchResponse(Cur, request, ok, data) :
       Commit(U, [NoCall EXCEPT !.name = "fetchResponse", !.m = request.m, !.ok = ok,
                                !.request = request, !.data = data])

\* One Collection.save or Collection.fetch at a time.
CollectionSave(c, options) ==
  /\ Idle
  /\ requests = {}
  /\ Commit(Collection_save(Cur, c, options),
            [NoCall EXCEPT !.name = "collectionSave", !.c = c, !.options = options])

CollectionFetch(c, add_, remove_, merge) ==
  /\ Idle
  /\ requests = {}
  /\ Commit(Collection_fetch(Cur, c, add_, remove_, merge),
            [NoCall EXCEPT !.name = "collectionFetch", !.c = c])

CollectionFetchResponse(request, ok, data) ==
  /\ Idle
  /\ request.kind = "fetch"
  /\ (data # << >> /\ request.add) =>
       LET currentIds == {Id(Cur, m) : m \in {n \in Range(privateCollections[request.c]) :
                                                 ~isNew(Cur, n)}}
           newModelAttributes ==
             SelectSeq(data[1], LAMBDA datum : Prop(datum, "id") \notin currentIds)
       IN  /\ Len(privateCollections[request.c]) + Len(newModelAttributes) <= MaxLen
           /\ Len(newModelAttributes) <= Cardinality(Models \ created)
  /\ \E U \in Collection_fetchResponse(Cur, request, ok, data) :
       Commit(U, [NoCall EXCEPT !.name = "collectionFetchResponse", !.c = request.c,
                                !.ok = ok, !.request = request, !.data = data])

\* Members, order, back-references and relays: objects that carry only an id.
Next ==
  \/ \E c \in Collections, objects \in Lists(AddElements), strategy \in Strategies :
       Add(c, objects, strategy)
  \/ \E c \in Collections, elements \in Lists(RemoveElements) : Remove(c, elements)
  \/ \E m \in created, newAttributes \in IdObjects : SetAttributes(m, newAttributes)
  \/ \E m \in created, name \in EventNames : Emit(m, name)
  \/ ResetObservers

Spec == Init /\ [][Next]_vars

\* Merging of attributes: objects that carry an id or none and a second key.
NextMerge ==
  \/ \E c \in Collections, objects \in Lists(MergeElements),
          strategy \in {"mergeNewIntoOld", "mergeOldIntoNew"} :
       Add(c, objects, strategy)
  \/ \E c \in Collections, m \in created : Remove(c, <<ModelElement(m)>>)
  \/ \E m \in created, v \in AValues : SetAttributes(m, [a |-> v])
  \/ ResetObservers

SpecMerge == Init /\ [][NextMerge]_vars

\* One Model on its own: its attributes, its snapshot and its requests.
ModelObjects ==
  {Assign(i, a) : i \in {EmptyObject} \cup {[id |-> v] : v \in IdValues \cup InvalidIds},
                  a \in {EmptyObject} \cup {[a |-> v] : v \in AValues}}

NextModel ==
  \/ \E attributes \in ModelObjects : created = {} /\ NewModel(attributes)
  \/ \E m \in created, newAttributes \in ModelObjects : SetAttributes(m, newAttributes)
  \/ \E m \in created : Clear(m)
  \/ \E m \in created, attributes \in ModelObjects, keep \in BOOLEAN : Reset(m, attributes, keep)
  \/ \E m \in created, options \in Options({"force", "silent"}) : Save(m, options)
  \/ \E request \in requests, ok \in BOOLEAN : SaveResponse(request, ok)
  \/ \E m \in created, options \in Options({"keepExistingAsChanges", "silent"}) :
       Fetch(m, options)
  \/ \E request \in requests, ok \in BOOLEAN,
          data \in {<< >>} \cup {<<o>> : o \in ModelObjects} :
       FetchResponse(request, ok, data)
  \/ \E m \in created, options \in Options({"wait", "silent"}) : Destroy(m, options)
  \/ \E request \in requests, ok \in BOOLEAN : DestroyResponse(request, ok)
  \/ ResetObservers

SpecModel == Init /\ [][NextModel]_vars

\* One Model and the values a caller can set: numbers, NaN among them.
LocalObjects ==
  ModelObjects \cup {Assign(i, [a |-> NaN]) : i \in {EmptyObject} \cup {[id |-> v] : v \in IdValues}}

NextSet ==
  \/ \E attributes \in LocalObjects : created = {} /\ NewModel(attributes)
  \/ \E m \in created, newAttributes \in LocalObjects : SetAttributes(m, newAttributes)
  \/ \E m \in created : Clear(m)
  \/ ResetObservers

SpecSet == Init /\ [][NextSet]_vars

\* One Model whose saves overlap. A round starts with a save while none is in
\* flight (tag 0); a second save (tag 1) may be called while the first is in
\* flight and nothing of the round has been answered.
MaxSaves == 2

SaveInRound(m, options) ==
  /\ Idle
  /\ LET tag == Cardinality({r \in requests : r.m = m})
     IN  /\ tag < MaxSaves
         /\ tag > 0 => settled = << >>
         /\ Record(Model_save(Cur, m, options, tag),
                   [NoCall EXCEPT !.name = "save", !.m = m, !.options = options])
         /\ settled' = IF tag = 0 THEN << >> ELSE settled

SaveResponseInRound(request, ok) ==
  /\ Idle
  /\ request.kind = "save"
  /\ \E U \in Model_saveResponse(Cur, request, ok) :
       /\ Record(U, [NoCall EXCEPT !.name = "saveResponse", !.m = request.m, !.ok = ok,
                                   !.request = request])
       /\ settled' = Append(settled, [m |-> request.m, tag |-> request.tag,
                                      attributes |-> request.attributes, ok |-> ok])

NextSaves ==
  \/ \E attributes \in ModelObjects : created = {} /\ NewModel(attributes)
  \/ \E m \in created, v \in AValues : SetAttributes(m, [a |-> v])
  \/ \E m \in created, options \in Options({"force"}) : SaveInRound(m, options)
  \/ \E request \in requests, ok \in BOOLEAN : SaveResponseInRound(request, ok)
  \/ ResetObservers

SpecSaves == Init /\ [][NextSaves]_vars

\* A Collection and its server: fetch.
SyncElements ==
  {ModelElement(m) : m \in created}
    \cup {ObjectElement(o) : o \in {EmptyObject} \cup {[id |-> v] : v \in IdValues}}

\* A response body: no array (<< >>), or an array of objects.
Payloads == {<< >>} \cup {<<data>> : data \in {<< >>} \cup Lists(IdObjects)}

NextSync ==
  \/ \E c \in Collections, e \in SyncElements : Add(c, <<e>>, "ignore")
  \/ \E m \in created : SetAttributes(m, [a |-> 1])
  \/ \E c \in Collections, add_, remove_, merge \in BOOLEAN :
       CollectionFetch(c, add_, remove_, merge)
  \/ \E request \in requests, ok \in BOOLEAN, data \in Payloads :
       CollectionFetchResponse(request, ok, data)
  \/ ResetObservers

SpecSync == Init /\ [][NextSync]_vars

\* A Collection and its server: save.
NextSave ==
  \/ \E c \in Collections, e \in SyncElements : Add(c, <<e>>, "ignore")
  \/ \E m \in created, v \in AValues : SetAttributes(m, [a |-> v])
  \/ \E c \in Collections, force \in BOOLEAN : CollectionSave(c, <<[force |-> force]>>)
  \/ \E request \in requests, ok \in BOOLEAN : SaveResponse(request, ok)
  \/ ResetObservers

SpecSave == Init /\ [][NextSave]_vars

\* A Collection whose members are destroyed.
NextDestroy ==
  \/ \E c \in Collections, e \in SyncElements : Add(c, <<e>>, "ignore")
  \/ \E c \in Collections, m \in created : Remove(c, <<ModelElement(m)>>)
  \/ \E m \in created, options \in Options({"wait"}) : Destroy(m, options)
  \/ \E request \in requests, ok \in BOOLEAN : DestroyResponse(request, ok)
  \/ ResetObservers

SpecDestroy == Init /\ [][NextDestroy]_vars

\* -------------------------------------------------- the plain EventEmitter
EmitterCur ==
  [specificHandlers |-> emitterSpecificHandlers, genericHandlers |-> emitterGenericHandlers,
   calls |-> << >>, threw |-> FALSE, returned |-> "nothing"]

\* What the callers have registered after a call that did not throw: the
\* pairs and the generic handlers added and not removed since, and the pairs
\* among them that were added again while they were registered; order lists,
\* name by name, the handlers as they were first added since they were last
\* removed.
Registration(call) ==
  CASE call.name \in {"addListener", "on"} ->
         [registered EXCEPT !.specific = @ \cup {<<call.event[1], call.handler>>},
                            !.again = @ \cup (registered.specific
                                               \cap {<<call.event[1], call.handler>>}),
                            !.order[call.event[1]] =
                               IF call.handler \in Range(@) THEN @
                               ELSE Append(@, call.handler)]
    [] call.name = "removeListener" /\ call.event # << >> ->
         [registered EXCEPT !.specific = @ \ {<<call.event[1], call.handler>>},
                            !.again = @ \ {<<call.event[1], call.handler>>},
                            !.order[call.event[1]] =
                               SelectSeq(@, LAMBDA handler : handler # call.handler)]
    [] call.name = "addGenericListener" ->
         [registered EXCEPT !.generic = @ \cup {call.handler}]
    [] call.name = "removeGenericListener" ->
         [registered EXCEPT !.generic = @ \ {call.handler}]
    [] call.name = "removeAllListeners" /\ call.event # << >> ->
         [registered EXCEPT !.specific = {p \in @ : p[1] # call.event[1]},
                            !.again = {p \in @ : p[1] # call.event[1]},
                            !.order[call.event[1]] = << >>]
    [] call.name = "removeAllListeners" /\ call.event = << >> ->
         [specific |-> {}, generic |-> {}, again |-> {},
          order |-> [name \in ListenerNames |-> << >>]]
    [] OTHER -> registered

\* The state after a call on the emitter with outcome E.
EmitterCommit(E, call) ==
  /\ registered' = IF E.threw THEN registered ELSE Registration(call)
  /\ emitterSpecificHandlers' = E.specificHandlers
  /\ emitterGenericHandlers' = E.genericHandlers
  /\ emitterOp' = [call |-> call,
                   pre |-> [specificHandlers |-> emitterSpecificHandlers,
                            genericHandlers |-> emitterGenericHandlers,
                            registered |-> registered],
                   calls |-> E.calls, threw |-> E.threw, returned |-> E.returned]
  /\ UNCHANGED <<created, modelsAttributes, previousAttributes, collection,
                 privateCollections, genericHandlers, specificHandlers,
                 memberGenericEvents, memberChangeEvents, requests, promiseAll, op, log,
                 settled>>

EmitterEmit(name, args) ==
  EmitterCommit(EventEmitter_emit(EmitterCur, name, args),
                [NoEmitterCall EXCEPT !.name = "emit", !.event = name, !.args = args])

EmitterAddListener(name, handler) ==
  EmitterCommit(EventEmitter_addListener(EmitterCur, name, handler),
                [NoEmitterCall EXCEPT !.name = "addListener", !.event = name,
                                      !.handler = handler])

EmitterOn(name, handler) ==
  EmitterCommit(EventEmitter_on(EmitterCur, name, handler),
                [NoEmitterCall EXCEPT !.name = "on", !.event = name,
                                      !.handler = handler])

EmitterAddGenericListener(handler) ==
  EmitterCommit(EventEmitter_addGenericListener(EmitterCur, handler),
                [NoEmitterCall EXCEPT !.name = "addGenericListener", !.handler = handler])

EmitterRemoveListener(name, handler) ==
  EmitterCommit(EventEmitter_removeListener(EmitterCur, name, handler),
                [NoEmitterCall EXCEPT !.name = "removeListener", !.event = name,
                                      !.handler = handler])

EmitterRemoveGenericListener(handler) ==
  EmitterCommit(EventEmitter_removeGenericListener(EmitterCur, handler),
                [NoEmitterCall EXCEPT !.name = "removeGenericListener",
                                      !.handler = handler])

EmitterRemoveAllListeners(name) ==
  EmitterCommit(EventEmitter_removeAllListeners(EmitterCur, name),
                [NoEmitterCall EXCEPT !.name = "removeAllListeners", !.event = name])

\* The calls a holder of the emitter can make.
Optional(values) == {<< >>} \cup {<<v>> : v \in values}

NextEmitter ==
  \/ \E name \in Optional(EmittedNames), args \in EmitArgs : EmitterEmit(name, args)
  \/ \E name \in Optional(ListenerNames), handler \in Handlers \cup {NotAFunction} :
       EmitterAddListener(name, handler)
  \/ \E name \in Optional(ListenerNames), handler \in Handlers : EmitterOn(name, handler)
  \/ \E handler \in Handlers \cup {NotAFunction} : EmitterAddGenericListener(handler)
  \/ \E name \in Optional(ListenerNames), handler \in Handlers \cup {NotAFunction} :
       EmitterRemoveListener(name, handler)
  \/ \E handler \in Handlers \cup {NotAFunction} : EmitterRemoveGenericListener(handler)
  \/ \E name \in Optional(ListenerNames) : EmitterRemoveAllListeners(name)

SpecEmitter == Init /\ [][NextEmitter]_vars

(***************************************************************************)
(* Properties.  op describes the last call (its arguments, the state       *)
(* before it, the state after each of its items), log what the listeners   *)
(* of the Collection and of the models were handed during it.              *)
(***************************************************************************)
members(c) == privateCollections[c]

IdNow(m) == Prop(modelsAttributes[m], "id")

\* The state an item of the last call met, and the state it left.
Before(i) == IF i = 1 THEN op.pre ELSE op.cores[i - 1]

After(i) == op.cores[i]

Processed == 1 .. Len(op.cores)

\* What the Collection's listeners were handed under a name, in order.
Emitted(c, names) ==
  SelectSeq(log, LAMBDA e : e.on = "collection" /\ e.id = c /\ e.name \in names)

EmittedFor(c, names, i) == SelectSeq(Emitted(c, names), LAMBDA e : e.item = i)

\* comparator(a, b) <= 0 for every adjacent pair of a sequence of models.
Sorted(S, models) ==
  \A i \in 1 .. Len(models) - 1 :
    LET r == Comparator(S, models[i], models[i + 1]) IN ~r.nan /\ r.v <= 0

AddCall == op.call.name = "add"

\* The attributes item i of the last add came with: the instance's, as the
\* item met them, or the plain object's.
ItemAttributes(i) ==
  IF op.call.objects[i].kind = "model"
  THEN Before(i).modelsAttributes[op.call.objects[i].m]
  ELSE op.call.objects[i].object

ItemId(i) == Prop(ItemAttributes(i), "id")

\* The added model of item i: the instance handed in, or the one made of the
\* plain object.
AddedModel(i) ==
  IF op.call.objects[i].kind = "model" THEN op.call.objects[i].m
  ELSE NewInstance(Before(i))

\* Item i has an id, and a member had that id when the item was processed.
ItemDuplicate(i) ==
  /\ ItemId(i) # << >>
  /\ getById(Before(i), op.call.c, ItemId(i)) # << >>

ExistingMember(i) == getById(Before(i), op.call.c, ItemId(i))[1]

\* The 'update' of the last call: exactly one, after every per-item event;
\* the per-item events in item order, each about the item it is logged for.
UpdateAfterItems ==
  LET c == op.call.c
      perItem == {"add", "replace", "remove", "sort"}
      events == Emitted(c, perItem \cup {"update"})
  IN  /\ Len(Emitted(c, {"update"})) = 1
      /\ events # << >> /\ events[Len(events)].name = "update"
      /\ \A i, j \in 1 .. Len(events) - 1 : i < j => events[i].item <= events[j].item
      /\ \A i \in 1 .. Len(events) - 1 :
           LET e == events[i]
           IN  /\ e.name \in {"add", "replace"} =>
                    /\ op.call.name = "add"
                    /\ e.item \in 1 .. Len(op.call.objects)
                    /\ e.args[Len(e.args)] = AddedModel(e.item)
               /\ e.name = "remove" =>
                    /\ op.call.name = "remove"
                    /\ e.item \in 1 .. Len(op.returned)
                    /\ e.args = <<op.returned[e.item]>>

\* ------------------------------------------------------------ properties
\* C1: in every state the calls lead to, no two members of a Collection have
\* the same defined id.
C1_UniqueIds ==
  \A c \in Collections : \A i, j \in 1 .. Len(members(c)) :
    (i < j /\ members(c)[i] # members(c)[j] /\ IdNow(members(c)[i]) # << >>)
      => IdNow(members(c)[i]) # IdNow(members(c)[j])

\* C2: the member sequence is sorted by the comparator after every add,
\* every remove and every 'change' of a member, and whenever an 'add' event
\* is delivered.
C2_Sorted ==
  \A c \in Collections :
    /\ Sorted(Cur, members(c))
    /\ \A i \in 1 .. Len(Emitted(c, {"add"})) : Sorted(Cur, Emitted(c, {"add"})[i].models)

\* C3: model.collection is the Collection exactly when the model is one of
\* its members.
C3_BackReference ==
  \A c \in Collections, m \in created :
    (collection[m] = <<c>>) <=> (m \in Range(members(c)))

\* C4: every add or remove call that returns emits exactly one 'update',
\* after all the per-item events ('add', 'replace', 'remove', 'sort') of the
\* call, which are emitted in item order; a call that throws emits none.
C4_OneUpdateWhenReturning ==
  op.call.name \in {"add", "remove"} =>
    IF op.threw THEN Emitted(op.call.c, {"update"}) = << >> ELSE UpdateAfterItems

\* C4 as stated: every add or remove call, also one that throws.
C4_OneUpdateEveryCall ==
  op.call.name \in {"add", "remove"} => UpdateAfterItems

\* An add of two items that returned, with an 'add' for each of them and a
\* 'sort' before the 'update'.
C4_Witness ==
  /\ AddCall /\ ~op.threw
  /\ EmittedFor(op.call.c, {"add"}, 1) # << >>
  /\ EmittedFor(op.call.c, {"add"}, 2) # << >>
  /\ Emitted(op.call.c, {"sort"}) # << >>
  /\ Emitted(op.call.c, {"update"}) # << >>

\* C5: remove takes out the members its arguments resolve to and no other,
\* emits one 'remove' per member taken out, and returns them in match order.
C5_RemoveExact ==
  op.call.name = "remove" =>
    LET c == op.call.c
        resolved == resolve(op.pre, c, op.call.objects)
        before == op.pre.privateCollections[c]
    IN  /\ members(c) = SelectSeq(before, LAMBDA m : m \notin Range(resolved))
        /\ Len(Emitted(c, {"remove"})) = Len(before) - Len(members(c))
        /\ \A m \in Range(resolved) :
             Len(SelectSeq(Emitted(c, {"remove"}), LAMBDA e : e.args = <<m>>)) = 1
        /\ op.returned = resolved

\* C6: add with 'replace', for each item whose id a member has: the member
\* leaves, the added model joins with its attributes as they were, one
\* 'replace' with (old, new) and no 'add' is emitted for the item; afterwards
\* the new instances stand in ascending id order.
C6_Replace ==
  (AddCall /\ op.call.strategy = "replace") =>
    LET c == op.call.c
        duplicates == {i \in Processed : ItemDuplicate(i)}
    IN  /\ \A i \in duplicates :
             LET old == ExistingMember(i)
                 new == AddedModel(i)
             IN  /\ old \notin Range(After(i).privateCollections[c])
                 /\ new \in Range(After(i).privateCollections[c])
                 /\ After(i).modelsAttributes[new] = ItemAttributes(i)
                 /\ Len(EmittedFor(c, {"replace"}, i)) = 1
                 /\ EmittedFor(c, {"replace"}, i)[1].args = <<old, new>>
                 /\ EmittedFor(c, {"add"}, i) = << >>
        /\ ~op.threw =>
             \A p, q \in 1 .. Len(members(c)) :
               (p < q /\ {members(c)[p], members(c)[q]} \subseteq {AddedModel(i) : i \in duplicates}
                  /\ IdNow(members(c)[p]) # << >> /\ IdNow(members(c)[q]) # << >>)
                 => IdNow(members(c)[p])[1] <= IdNow(members(c)[q])[1]

\* C7: add with 'ignore', for an item whose id a member has, changes nothing
\* (instances, attributes, back-references, member sequence, registered
\* listeners) and emits nothing for that item, on the Collection or on a model.
C7_IgnoreChangesNothing ==
  (AddCall /\ op.call.strategy = "ignore") =>
    \A i \in Processed :
      ItemDuplicate(i) =>
        /\ After(i) = Before(i)
        /\ SelectSeq(log, LAMBDA e : e.item = i) = << >>

\* An add under 'ignore' of a new item and of an item whose id a member has.
C7_Witness ==
  /\ AddCall /\ op.call.strategy = "ignore" /\ ~op.threw
  /\ \E i, j \in Processed :
       /\ ItemDuplicate(i)
       /\ EmittedFor(op.call.c, {"add"}, j) # << >>
       /\ Len(After(i).privateCollections[op.call.c]) >= 2

\* C8: add with 'mergeNewIntoOld', for an item whose id a member has: the
\* member stays, its attributes become its own overlaid with the added
\* model's, nobody joins or leaves the Collection, and no 'add' or 'replace'
\* is emitted for the item.
C8_MergeNewIntoOld ==
  (AddCall /\ op.call.strategy = "mergeNewIntoOld") =>
    \A i \in Processed :
      ItemDuplicate(i) =>
        LET c == op.call.c
            old == ExistingMember(i)
        IN  /\ old \in Range(After(i).privateCollections[c])
            /\ After(i).modelsAttributes[old]
                 = Assign(Before(i).modelsAttributes[old], ItemAttributes(i))
            /\ \A m \in Models : Count(After(i).privateCollections[c], m)
                                   = Count(Before(i).privateCollections[c], m)
            /\ op.call.objects[i].kind = "object" => AddedModel(i) \notin After(i).created
            /\ EmittedFor(c, {"add", "replace"}, i) = << >>

\* A merge in which the member and the added model disagree on a shared key.
C8_Witness ==
  /\ AddCall /\ op.call.strategy = "mergeNewIntoOld"
  /\ \E i \in Processed :
       /\ ItemDuplicate(i)
       /\ Prop(Before(i).modelsAttributes[ExistingMember(i)], "a") = <<1>>
       /\ Prop(ItemAttributes(i), "a") = <<2>>
       /\ Prop(After(i).modelsAttributes[ExistingMember(i)], "a") = <<2>>

\* C9: add with 'mergeOldIntoNew', for an item whose id a member has: the
\* added model takes the member's place, its attributes become its own
\* overlaid with the member's, the old member is no member any more, and one
\* 'replace' with (old, new) and no 'add' is emitted for the item.
C9_MergeOldIntoNew ==
  (AddCall /\ op.call.strategy = "mergeOldIntoNew") =>
    \A i \in Processed :
      ItemDuplicate(i) =>
        LET c == op.call.c
            old == ExistingMember(i)
            new == AddedModel(i)
        IN  /\ new \in Range(After(i).privateCollections[c])
            /\ old \notin Range(After(i).privateCollections[c])
            /\ After(i).modelsAttributes[new]
                 = Assign(ItemAttributes(i), Before(i).modelsAttributes[old])
            /\ Len(EmittedFor(c, {"replace"}, i)) = 1
            /\ EmittedFor(c, {"replace"}, i)[1].args = <<old, new>>
            /\ EmittedFor(c, {"add"}, i) = << >>

\* C10: a member's emit of an event that is no listener-bookkeeping event is
\* handed on by the Collection exactly once, with the member put first.
C10_RelayOnce ==
  (op.call.name = "emit" /\ op.call.event \notin specialEventSymbols) =>
    \A c \in Collections :
      op.call.m \in Range(members(c)) =>
        Len(SelectSeq(Emitted(c, {op.call.event}), LAMBDA e : e.args = <<op.call.m>>)) = 1

\* The closures of Collection c among a sequence of handlers.
ClosuresOf(c, handlers) == SelectSeq(handlers, LAMBDA h : h.c = c)

\* C11: a model that is no member (any more) is not proxied: nothing it emits
\* is emitted again on the Collection and no 'change' listener of the
\* Collection is left on it, while every member is still proxied.
C11_NoRelayAfterLeaving ==
  \A c \in Collections :
    /\ op.call.name = "emit" /\ op.call.m \notin Range(op.pre.privateCollections[c])
         => /\ SelectSeq(log, LAMBDA e : e.on = "collection" /\ e.id = c) = << >>
            /\ ClosuresOf(c, op.pre.specificHandlers[op.call.m]) = << >>
    /\ \A m \in Range(members(c)) :
         /\ ClosuresOf(c, genericHandlers[m]) # << >>
         /\ ClosuresOf(c, specificHandlers[m]) # << >>

\* C12: an add with a Model instance of another class among its items throws
\* before anything is changed or emitted, also when valid items precede it.
C12_AddRejectsForeignModel ==
  (AddCall /\ \E i \in 1 .. Len(op.call.objects) : op.call.objects[i].kind = "foreign") =>
    /\ op.threw
    /\ Core(Cur) = op.pre
    /\ log = << >>

\* A nonempty Collection is handed a plain object and then a foreign Model.
C12_Witness ==
  /\ AddCall /\ op.threw
  /\ Len(op.call.objects) = 2
  /\ op.call.objects[1].kind = "object"
  /\ op.call.objects[2].kind = "foreign"
  /\ members(op.call.c) # << >>

\* The last step was the then-handler of a Collection.fetch that did not throw.
FetchDone == op.call.name = "collectionFetchResponse" /\ ~op.threw

FetchDefaults == op.call.request.add /\ op.call.request.remove /\ op.call.request.merge

\* The ids the items of the payload carry.
PayloadIds ==
  {Prop(op.call.data[1][i], "id")[1] :
     i \in {j \in 1 .. Len(op.call.data[1]) : Prop(op.call.data[1][j], "id") # << >>}}

\* C13: after a successful Collection.fetch with the default options the
\* ids of the persisted members are exactly the ids of the payload, every
\* member that had no id before the fetch is still a member, and the only
\* members removed are persisted ones whose id the payload does not hold.
C13_FetchReconciles ==
  (FetchDone /\ FetchDefaults) =>
    LET c == op.call.c
        was == Range(op.pre.privateCollections[c])
        now == Range(members(c))
    IN  /\ {IdNow(m)[1] : m \in {n \in now : IdNow(n) # << >>}} = PayloadIds
        /\ \A m \in was : isNew(op.pre, m) => m \in now
        /\ \A m \in was \ now : ~isNew(op.pre, m) /\ Id(op.pre, m)[1] \notin PayloadIds

\* C14: a successful Collection.fetch emits 'sync' on the Collection exactly
\* once, and nothing is emitted after it: every remove, add and update event
\* and every reset of a member of that fetch comes before it.
C14_SyncOnceLast ==
  FetchDone =>
    /\ Len(Emitted(op.call.c, {"sync"})) = 1
    /\ log[Len(log)].on = "collection" /\ log[Len(log)].name = "sync"

\* A fetch that removed a member and reset another, then emitted 'sync'.
C14_Witness ==
  /\ FetchDone
  /\ Emitted(op.call.c, {"remove"}) # << >>
  /\ Emitted(op.call.c, {"update"}) # << >>
  /\ \E i \in 1 .. Len(log) : log[i].on = "model" /\ log[i].name = "reset"
  /\ log[Len(log)].name = "sync"

\* A fetch that added a member and reset another, then emitted 'sync'.
C14_WitnessAdd ==
  /\ FetchDone
  /\ Emitted(op.call.c, {"add"}) # << >>
  /\ \E i \in 1 .. Len(log) : log[i].on = "model" /\ log[i].name = "reset"
  /\ log[Len(log)].name = "sync"

\* C15: the promise of Collection.save is settled only when the save of
\* every member is settled: it is neither resolved nor rejected while a
\* member's save is pending, and it is resolved only with every member's
\* save resolved, one value a member in member order.
C15_SaveWaitsForAll ==
  promiseAll.status \in {"resolved", "rejected"} =>
    /\ \A i \in 1 .. Len(promiseAll.members) : promiseAll.members[i] # "pending"
    /\ promiseAll.status = "resolved" =>
         \A i \in 1 .. Len(promiseAll.members) : promiseAll.members[i] = "resolved"

SetsDefinedId ==
  /\ op.call.name = "setAttributes"
  /\ "id" \in DOMAIN op.call.attributes
  /\ Id(op.pre, op.call.m) # << >>

\* C17: once a model's id is defined, setting it to a different value fails
\* with an error, changes nothing and emits no event; setting it to the
\* value it has succeeds, changes nothing and emits no event.
C17_IdSetOnce ==
  SetsDefinedId =>
    /\ op.threw <=> <<op.call.attributes["id"]>> # Id(op.pre, op.call.m)
    /\ "a" \notin DOMAIN op.call.attributes => (Core(Cur) = op.pre /\ log = << >>)

\* C18: the id of every Model is undefined or valid (a string or a
\* non-negative integer): a construction with another id throws and creates
\* no model, and no later call leaves a model with such an id.
C18_IdValid ==
  /\ \A m \in created : IdNow(m) # << >> => checkId(IdNow(m)[1])
  /\ (op.call.name = "new" /\ ConstructorThrows(op.call.attributes))
       => (op.threw /\ created = op.pre.created)

\* C19: a model for which isNew() is false stays so, whatever is called.
C19_NeverNewAgain ==
  \A m \in created \cap op.pre.created : ~isNew(op.pre, m) => ~isNew(Cur, m)

\* C20: when the save of a new model has succeeded, the model has an id and
\* isNew() is false.
C20_SavedHasId ==
  (op.call.name = "saveResponse" /\ op.call.ok /\ ~op.threw /\ isNew(op.pre, op.call.m))
    => (IdNow(op.call.m) # << >> /\ ~isNew(Cur, op.call.m))

\* The last step was the then-handler of a Model.fetch that did not throw.
ModelFetchDone == op.call.name = "fetchResponse" /\ ~op.threw

\* C21: after a successful Model.fetch, whatever options it was called
\* with, the live attributes are the payload overlaid with the live
\* attributes held just before the response (the local value wins), the
\* snapshot is the payload, and changedAttributes() is the local differences.
C21_FetchKeepsLocal ==
  ModelFetchDone =>
    LET m == op.call.m
        data == op.call.data[1]
        local == op.pre.modelsAttributes[m]
    IN  /\ modelsAttributes[m] = Assign(data, local)
        /\ previousAttributes[m] = data
        /\ changedAttributes(Cur, m)
             = [key \in {k \in DOMAIN local : Prop(local, k) # Prop(data, k)} |-> <<local[key]>>]

\* The last step was the then-handler of a Model.save whose request succeeded.
SaveDone == op.call.name = "saveResponse" /\ op.call.ok /\ ~op.threw

\* C22: the request of a save carries the live attributes of the moment
\* save was called, and when it succeeds the snapshot is those attributes,
\* whatever was changed in between; the live attributes are left alone, so
\* hasChanged() and changedAttributes() report the changes made in between.
C22_SaveSnapshotsAtCall ==
  /\ (op.call.name = "save" /\ op.returned = <<"pending">>) =>
       \E r \in requests :
         r.kind = "save" /\ r.m = op.call.m /\ r.attributes = op.pre.modelsAttributes[op.call.m]
  /\ SaveDone =>
       LET m == op.call.m
           sent == op.call.request.attributes
           live == op.pre.modelsAttributes[m]
       IN  /\ previousAttributes[m] = sent
           /\ modelsAttributes[m] = live
           /\ hasChanged(Cur, m, << >>) <=> live # sent
           /\ changedAttributes(Cur, m)
                = [key \in {k \in DOMAIN live \cup DOMAIN sent : Prop(live, k) # Prop(sent, k)}
                     |-> Prop(live, key)]

\* A save succeeded after an attribute was changed while it was in flight.
C22_Witness ==
  /\ SaveDone
  /\ op.pre.modelsAttributes[op.call.m] # op.call.request.attributes
  /\ previousAttributes[op.call.m] = op.call.request.attributes
  /\ hasChanged(Cur, op.call.m, <<"a">>)

\* The last step was the response to a Model.fetch or Model.save that the
\* claim counts as a failure.
FetchFailed ==
  /\ op.call.name = "fetchResponse"
  /\ \/ ~op.call.ok
     \/ op.call.data # << >> /\ Prop(op.call.data[1], "id") # Id(op.pre, op.call.m)

SaveFailed == op.call.name = "saveResponse" /\ ~op.call.ok

\* C26: a Model.fetch whose response is not ok or carries another id than
\* the model's, and a Model.save whose response is not ok, reject the promise
\* the call returned (the call itself did not throw), leave the live
\* attributes and the snapshot as they were and emit no 'sync'.
C26_FailuresReject ==
  /\ (FetchFailed \/ SaveFailed) =>
       /\ op.threw
       /\ modelsAttributes = op.pre.modelsAttributes
       /\ previousAttributes = op.pre.previousAttributes
       /\ \A i \in 1 .. Len(log) : log[i].name # "sync"
  /\ (op.call.name = "save" \/ (op.call.name = "fetch" /\ ~isNew(op.pre, op.call.m)))
       => ~op.threw

\* A fetch was answered with another id while the model had local changes.
C26_Witness ==
  /\ FetchFailed
  /\ op.call.ok
  /\ op.threw
  /\ hasChanged(Cur, op.call.m, << >>)

\* The events of a name the model of the last call emitted, in order.
ModelEmitted(name) ==
  SelectSeq(log, LAMBDA e : e.on = "model" /\ e.id = op.call.m /\ e.name = name)

\* One event without arguments unless silent, none when silent.
OnceUnlessSilent(name, options) ==
  IF Option(options, "silent", FALSE) THEN ModelEmitted(name) = << >>
  ELSE Len(ModelEmitted(name)) = 1 /\ ModelEmitted(name)[1].args = << >>

\* C25: with a truthy silent option a successful Model.fetch or Model.save
\* emits no 'sync' and a successful Model.destroy, of a new or of a persisted
\* model, emits no 'destroy'; without it each emits the event once, with no
\* arguments.
C25_Silent ==
  /\ (ModelFetchDone \/ SaveDone) => OnceUnlessSilent("sync", op.call.request.options)
  /\ (op.call.name = "destroyResponse" /\ op.call.ok /\ ~op.threw)
       => OnceUnlessSilent("destroy", op.call.request.options)
  /\ (op.call.name = "destroy" /\ isNew(op.pre, op.call.m) /\ ~op.threw)
       => OnceUnlessSilent("destroy", op.call.options)

\* The collection.remove calls of the last step: each emits 'update' once.
RemoveCalls(c) == Len(Emitted(c, {"update"}))

\* The last step detached model m from Collection c: one call of
\* c.remove, with the model, and the back-reference cleared.
DetachedNow(c, m) ==
  /\ RemoveCalls(c) = 1
  /\ op.returned = <<m>>
  /\ Emitted(c, {"remove"}) # << >> /\ \A i \in 1 .. Len(Emitted(c, {"remove"})) :
       Emitted(c, {"remove"})[i].args = <<m>>
  /\ Count(members(c), m) = Count(op.pre.privateCollections[c], m) - 1
  /\ collection[m] = << >>

\* The last step left the membership and the back-references alone.
NotDetachedNow ==
  /\ \A c \in Collections : RemoveCalls(c) = 0
  /\ privateCollections = op.pre.privateCollections
  /\ collection = op.pre.collection

\* Model m is a member of the Collection its back-reference names.
InItsCollection(S, m) ==
  S.collection[m] # << >> /\ m \in Range(S.privateCollections[S.collection[m][1]])

\* C23: destroy detaches a model from its Collection (collection.remove is
\* called once with the model and the back-reference is cleared): at once and
\* without a request for a new model; at once, before the response, for a
\* persisted model without wait; for a persisted model with wait not before
\* the response, and once when the response is successful.
C23_DestroyDetaches ==
  LET m == op.call.m
      wait == op.call.wait
  IN  /\ (op.call.name = "destroy" /\ InItsCollection(op.pre, m)) =>
           /\ isNew(op.pre, m) => (DetachedNow(op.pre.collection[m][1], m)
                                   /\ \A r \in requests : r.m # m)
           /\ (~isNew(op.pre, m) /\ ~wait) => DetachedNow(op.pre.collection[m][1], m)
           /\ (~isNew(op.pre, m) /\ wait) => NotDetachedNow
      /\ (op.call.name = "destroyResponse" /\ op.call.ok) =>
           /\ (wait /\ InItsCollection(op.pre, m)) => DetachedNow(op.pre.collection[m][1], m)
           /\ ~wait => NotDetachedNow

\* A persisted member destroyed with wait left its Collection when the
\* response arrived.
C23_Witness ==
  /\ op.call.name = "destroyResponse" /\ op.call.ok /\ op.call.wait
  /\ InItsCollection(op.pre, op.call.m)
  /\ op.call.m \notin Range(members(1))
  /\ collection[op.call.m] = << >>

DestroyFailed == op.call.name = "destroyResponse" /\ ~op.call.ok

\* C24: an unsuccessful DELETE response rejects the promise of destroy, leaves
\* the snapshot as it was and emits no 'destroy'; the membership and the
\* back-references stay as the response met them: with wait the model is
\* still where it was, without wait the detach made at the call stays made.
C24_DestroyFailureRejects ==
  DestroyFailed =>
    /\ op.threw
    /\ previousAttributes = op.pre.previousAttributes
    /\ ModelEmitted("destroy") = << >>
    /\ log = << >>
    /\ privateCollections = op.pre.privateCollections
    /\ collection = op.pre.collection

\* A destroy with wait of a persisted member failed: the model has its
\* snapshot and is still a member of the Collection it refers to.
C24_Witness ==
  /\ DestroyFailed
  /\ op.call.wait
  /\ op.threw
  /\ previousAttributes[op.call.m] # EmptyObject
  /\ InItsCollection(Cur, op.call.m)

\* ------------------------------------------------ the plain EventEmitter
\* The calls of handler the last call on the emitter made, as a generic or
\* as a specific handler.
CallsOf(as, handler) ==
  SelectSeq(emitterOp.calls, LAMBDA call : call.as = as /\ call.handler = handler)

EmitCall == emitterOp.call.name = "emit" /\ emitterOp.call.event # << >>

\* C27: whatever addListener, on and removeListener calls were made, emit(name)
\* calls each handler registered for name and not removed since once, with the
\* arguments of the emit, and no other handler: a pair registered several
\* times is called once, and is not called after one removeListener.
C27_RegisteredOnce ==
  EmitCall =>
    \A handler \in Handlers :
      CallsOf("specific", handler) =
        IF <<emitterOp.call.event[1], handler>> \in emitterOp.pre.registered.specific
        THEN <<[as |-> "specific", event |-> emitterOp.call.event[1],
                handler |-> handler, args |-> emitterOp.call.args]>>
        ELSE << >>

\* Both handlers are registered for 'x' and "f" was registered twice: an
\* emit of 'x' called each once.
C27_Witness ==
  /\ EmitCall
  /\ emitterOp.call.event = <<"x">>
  /\ emitterOp.pre.registered.specific = {<<"x", "f">>, <<"x", "g">>}
  /\ <<"x", "f">> \in emitterOp.pre.registered.again
  /\ Len(CallsOf("specific", "f")) = 1
  /\ Len(CallsOf("specific", "g")) = 1

\* The calls of any handler the last call on the emitter made.
HandlerCalls(as) == SelectSeq(emitterOp.calls, LAMBDA call : call.as = as)

\* C28: emit(name, ...args) returns true when a handler is registered for
\* name at the call and false when none is, whatever generic listeners there
\* are; with name undefined it throws and calls no handler.
C28_EmitReturns ==
  emitterOp.call.name = "emit" =>
    IF emitterOp.call.event = << >>
    THEN emitterOp.threw /\ emitterOp.calls = << >>
    ELSE /\ ~emitterOp.threw
         /\ emitterOp.returned =
              IF \E handler \in Handlers :
                   <<emitterOp.call.event[1], handler>> \in emitterOp.pre.registered.specific
              THEN "true" ELSE "false"

\* An emit of a name without handlers returned false although a generic
\* listener was called.
C28_Witness ==
  /\ EmitCall
  /\ emitterOp.returned = "false"
  /\ HandlerCalls("generic") # << >>
  /\ emitterOp.pre.registered.specific # {}

\* C29: an emit of a name that is no special event calls each generic
\* listener registered and not removed once, with the name and then the
\* arguments of the emit, and no other handler as a generic one; a special
\* event, emitted by a caller or by a change of registration, reaches no
\* generic listener.
C29_GenericDispatch ==
  /\ EmitCall /\ emitterOp.call.event[1] \notin specialEventSymbols =>
       \A handler \in Handlers :
         CallsOf("generic", handler) =
           IF handler \in emitterOp.pre.registered.generic
           THEN <<[as |-> "generic", event |-> emitterOp.call.event[1],
                   handler |-> handler,
                   args |-> <<emitterOp.call.event[1]>> \o emitterOp.call.args]>>
           ELSE << >>
  /\ \A i \in 1 .. Len(emitterOp.calls) :
       emitterOp.calls[i].as = "generic" =>
         /\ emitterOp.calls[i].event \notin specialEventSymbols
         /\ emitterOp.call.name = "emit"

\* A caller emitted 'removeListener' itself while a generic listener was
\* registered: the handler of that name was called, the generic one was not.
C29_Witness ==
  /\ EmitCall
  /\ emitterOp.call.event = <<"vertebrate:removeListener">>
  /\ emitterOp.pre.registered.generic # {}
  /\ HandlerCalls("specific") # << >>
  /\ HandlerCalls("generic") = << >>

\* The handlers the Map holds for a name, none when it has no entry.
HandlersOf(map, name) == IF MapGet(map, name) = << >> THEN << >> ELSE MapGet(map, name)[1]

RemoveAllCall == emitterOp.call.name = "removeAllListeners"

\* C30: removeAllListeners(name) leaves no handler of name and leaves the
\* handlers of every other name and the generic listeners as they were;
\* removeAllListeners() leaves no handler of any name and no generic listener;
\* and an emit calls no handler but those the emitter holds, so that a handler
\* removed this way is not called again.
C30_RemoveAllFrame ==
  /\ (RemoveAllCall /\ emitterOp.call.event # << >>) =>
       /\ HandlersOf(emitterSpecificHandlers, emitterOp.call.event[1]) = << >>
       /\ \A name \in ListenerNames \ {emitterOp.call.event[1]} :
            MapGet(emitterSpecificHandlers, name) = MapGet(emitterOp.pre.specificHandlers, name)
       /\ emitterGenericHandlers = emitterOp.pre.genericHandlers
  /\ (RemoveAllCall /\ emitterOp.call.event = << >>) =>
       /\ ~emitterOp.threw
       /\ \A name \in ListenerNames : HandlersOf(emitterSpecificHandlers, name) = << >>
       /\ emitterGenericHandlers = << >>
  /\ EmitCall =>
       \A i \in 1 .. Len(emitterOp.calls) :
         emitterOp.calls[i].handler \in
           IF emitterOp.calls[i].as = "generic" THEN Range(emitterOp.pre.genericHandlers)
           ELSE Range(HandlersOf(emitterOp.pre.specificHandlers, emitterOp.call.event[1]))

\* removeAllListeners('x') removed two handlers of 'x' and left a handler of
\* 'removeListener' and a generic listener registered.
C30_Witness ==
  /\ RemoveAllCall
  /\ emitterOp.call.event = <<"x">>
  /\ ~emitterOp.threw
  /\ Len(HandlersOf(emitterOp.pre.specificHandlers, "x")) = 2
  /\ HandlersOf(emitterSpecificHandlers, "x") = << >>
  /\ HandlersOf(emitterSpecificHandlers, "vertebrate:removeListener") # << >>
  /\ emitterGenericHandlers # << >>

\* The ids of a sequence are defined and do not decrease.
InOrder(ids) ==
  /\ \A i \in 1 .. Len(ids) : ids[i] # << >>
  /\ \A i \in 1 .. Len(ids) - 1 : ids[i][1] <= ids[i + 1][1]

\* C31: a run of sort emits one 'sort' event, without arguments, when the
\* sequence after it differs from the sequence before it at some position,
\* and no event otherwise; it emits none when the sequence it is given is in
\* comparator order already.
C31_SortEvent ==
  \A k \in 1 .. Len(op.sorts) :
    LET s == op.sorts[k]
    IN  /\ IF s.after # s.before
           THEN /\ s.logAfter = s.logBefore + 1
                /\ log[s.logAfter].on = "collection" /\ log[s.logAfter].id = s.c
                /\ log[s.logAfter].name = "sort" /\ log[s.logAfter].args = << >>
           ELSE s.logAfter = s.logBefore
        /\ InOrder(s.ids) => (s.after = s.before /\ s.logAfter = s.logBefore)

\* One add of two items: the first arrived in order and caused no 'sort', the
\* second had to move and caused one.
C31_Witness ==
  /\ AddCall
  /\ Len(op.sorts) = 2
  /\ InOrder(op.sorts[1].ids) /\ Len(op.sorts[1].ids) = 2
  /\ op.sorts[2].after # op.sorts[2].before
  /\ Len(Emitted(op.call.c, {"sort"})) = 1

SetAttributesCall == op.call.name = "setAttributes"

\* The events the model of the last call emitted, in order.
ModelEvents == SelectSeq(log, LAMBDA e : e.on = "model" /\ e.id = op.call.m)

\* The call names the key with a value that is not the one the model has
\* (the same value, NaN included, is no change) and that the key can take.
EffectivelyChanged(key) ==
  /\ key \in DOMAIN op.call.attributes
  /\ <<op.call.attributes[key]>> # Prop(op.pre.modelsAttributes[op.call.m], key)
  /\ key = "id" => checkId(op.call.attributes[key])

\* C32: one setAttributes call emits 'change:<key>' once, with the new value,
\* for each key whose value changed and for no other key, then 'change' once
\* as its last event; it gives the changed keys their new values, leaves
\* every other key as it was and returns the model.
C32_SetAttributesEvents ==
  SetAttributesCall =>
    /\ \A key \in Keys :
         IF EffectivelyChanged(key)
         THEN /\ Len(ModelEmitted("change:" \o key)) = 1
              /\ ModelEmitted("change:" \o key)[1].args = <<op.call.attributes[key]>>
              /\ Prop(modelsAttributes[op.call.m], key) = <<op.call.attributes[key]>>
         ELSE /\ ModelEmitted("change:" \o key) = << >>
              /\ Prop(modelsAttributes[op.call.m], key)
                   = Prop(op.pre.modelsAttributes[op.call.m], key)
    /\ Len(ModelEmitted("change")) = 1
    /\ ModelEvents[Len(ModelEvents)].name = "change"
    /\ op.returned = <<op.call.m>>
    /\ ~op.threw

\* The last call is one that may give the model a new snapshot.
SnapshotCall ==
  \/ op.call.name \in {"new", "reset"}
  \/ op.call.name \in {"fetchResponse", "saveResponse", "destroyResponse"}
       /\ op.call.ok /\ ~op.threw
  \/ op.call.name = "destroy" /\ isNew(op.pre, op.call.m)

\* C33: setAttributes and clear leave the snapshot alone, previous() returns
\* after them what it returned before; the snapshot changes only in the
\* constructor, in reset, when a fetch or a save succeeds, and when a destroy
\* succeeds, which leaves it empty.
C33_SnapshotFrame ==
  /\ op.call.name \in {"setAttributes", "clear"} =>
       \A m \in created : previous(Cur, m) = previous(op.pre, m)
  /\ previousAttributes # op.pre.previousAttributes => SnapshotCall
  /\ (op.call.name \in {"destroy", "destroyResponse"}
        /\ previousAttributes # op.pre.previousAttributes)
       => previous(Cur, op.call.m) = EmptyObject

\* A call of setAttributes changed the live attributes of a model with a
\* snapshot, which stayed.
C33_Witness ==
  /\ op.call.name = "setAttributes"
  /\ modelsAttributes # op.pre.modelsAttributes
  /\ previous(Cur, op.call.m) # EmptyObject
  /\ previous(Cur, op.call.m) = previous(op.pre, op.call.m)
  /\ hasChanged(Cur, op.call.m, << >>)

\* The requests of the model of the last call that are in flight.
RequestsOf(m) == {r \in requests : r.m = m}

HandlersCalled(calls) == [i \in 1 .. Len(calls) |-> calls[i].handler]

\* The handlers registered for a name, in the order of their registration.
RegisteredFor(order, name) == IF name \in DOMAIN order THEN order[name] ELSE << >>

\* C35: within one emit every call of a generic listener comes before every
\* call of a handler of the name, and the handlers of the name are called,
\* before emit returns, in the order in which they were registered.
C35_DispatchOrder ==
  EmitCall =>
    /\ \A i, j \in 1 .. Len(emitterOp.calls) :
         (emitterOp.calls[i].as = "generic" /\ emitterOp.calls[j].as = "specific") => i < j
    /\ HandlersCalled(HandlerCalls("specific"))
         = RegisteredFor(emitterOp.pre.registered.order, emitterOp.call.event[1])
    /\ \A i \in 1 .. Len(emitterOp.calls) : emitterOp.calls[i].event = emitterOp.call.event[1]

\* 'x' was emitted with a generic listener and two handlers registered, "g"
\* before "f": the generic listener was called first, then "g", then "f".
C35_Witness ==
  /\ EmitCall
  /\ emitterOp.call.event = <<"x">>
  /\ HandlerCalls("generic") # << >>
  /\ HandlersCalled(HandlerCalls("specific")) = <<"g", "f">>
  /\ emitterOp.calls[1].as = "generic"

\* C40: removeAllListeners(name) for a name the Map has no entry for, as it
\* is for a name no handler was ever registered for, returns the emitter
\* without an error, changes no registration and emits nothing.
C40_RemoveAllUnknownName ==
  (/\ RemoveAllCall
   /\ emitterOp.call.event # << >>
   /\ MapGet(emitterOp.pre.specificHandlers, emitterOp.call.event[1]) = << >>) =>
    /\ ~emitterOp.threw
    /\ emitterOp.returned = "this"
    /\ emitterSpecificHandlers = emitterOp.pre.specificHandlers
    /\ emitterGenericHandlers = emitterOp.pre.genericHandlers
    /\ emitterOp.calls = << >>

\* C36: whatever was added and removed, no instance is in the sequence of a
\* Collection twice, and every member carries one relay and one resort
\* listener of the Collection.
C36_OneOfEach ==
  \A c \in Collections : \A m \in Range(members(c)) :
    /\ Count(members(c), m) = 1
    /\ Len(ClosuresOf(c, genericHandlers[m])) = 1
    /\ Len(ClosuresOf(c, specificHandlers[m])) = 1

\* An argument of get or remove that carries no defined id and is no member
\* of Collection c in state S: undefined, a plain object without id, a new
\* Model outside the Collection.
Unidentified(S, c, element) ==
  \/ element.kind = "value" /\ element.value = << >>
  \/ element.kind = "object" /\ Prop(element.object, "id") = << >>
  \/ element.kind = "model" /\ isNew(S, element.m) /\ ~Member(S, c, element.m)

\* C37: get finds no member for such an argument, and a remove that is given
\* nothing else removes no member and returns the empty list, also when new
\* members are in the Collection.
C37_UnidentifiedResolvesToNothing ==
  /\ \A c \in Collections, element \in RemoveElements :
       Unidentified(Cur, c, element) => get(Cur, c, element) = << >>
  /\ (/\ op.call.name = "remove"
      /\ \A i \in 1 .. Len(op.call.objects) : Unidentified(op.pre, op.call.c, op.call.objects[i]))
       => /\ op.returned = << >>
          /\ privateCollections = op.pre.privateCollections
          /\ Emitted(op.call.c, {"remove"}) = << >>

\* C38: when two saves of a Model were in flight at once and both were
\* answered with success, the snapshot is what the save called second sent,
\* in whichever order the answers came.
C38_LaterSaveWins ==
  (/\ Len(settled) = MaxSaves
   /\ \A i \in 1 .. Len(settled) : settled[i].ok)
    => \A i \in 1 .. Len(settled) :
         settled[i].tag = MaxSaves - 1
           => previousAttributes[settled[i].m] = settled[i].attributes

\* Element i of the last add stands for a member of the Collection, by its
\* id, and carries no attribute whose value differs from that member's.
IdenticalToMember(i) ==
  LET element == op.call.objects[i]
      attributes == IF element.kind = "model" THEN op.pre.modelsAttributes[element.m]
                    ELSE element.object
      old == getById(op.pre, op.call.c, Prop(attributes, "id"))
  IN  /\ element.kind \in {"model", "object"}
      /\ Prop(attributes, "id") # << >>
      /\ old # << >>
      /\ \A key \in DOMAIN attributes :
           Prop(op.pre.modelsAttributes[old[1]], key) = <<attributes[key]>>

\* C39: a setAttributes call that changes no key, made by a caller or by an
\* add under 'mergeNewIntoOld' whose items are identical to members, emits
\* no event on the model: the Collection relays no 'change' and does not sort.
C39_UnchangedIsSilent ==
  /\ (SetAttributesCall /\ \A key \in Keys : ~EffectivelyChanged(key))
       => log = << >> /\ op.sorts = << >>
  /\ (/\ op.call.name = "add"
      /\ op.call.strategy = "mergeNewIntoOld"
      /\ \A i \in 1 .. Len(op.call.objects) : IdenticalToMember(i))
       => /\ SelectSeq(log, LAMBDA e : e.name # "update") = << >>
          /\ op.sorts = << >>

=============================================================================
